---------------------------- MODULE Spec2Model ----------------------------
(***************************************************************************)
(* A model of the SNS buzz-map pipeline: two crawlers, two extractors      *)
(* (Instagram, YouTube) and the geocoder, each an AWS Lambda handler.      *)
(*                                                                         *)
(* Python values are tagged one-field records: [str |-> s], [int |-> n],   *)
(* [float |-> <<num, den>>], [none |-> TRUE], [bool |-> b], [dict |-> f],  *)
(* [list |-> seq].  A raised exception is [exc |-> name].  DynamoDB        *)
(* attribute values are the typed values of the wire format: [S |-> s],    *)
(* [N |-> text], [M |-> map], [NULL |-> TRUE], [BOOL |-> b], where a       *)
(* number text is a sequence of one-character strings.                     *)
(***************************************************************************)
EXTENDS Integers, Sequences, FiniteSets, TLC

VARIABLES
    clients,    \* the module-level client handles of every component
    streams,    \* the change records the stores have emitted, not yet delivered
    gx,         \* one running call of call_gemini_for_extraction
    gq,         \* a call of geocode_address made on its own
    inv,        \* the running handler invocations
    raw,        \* the raw stores of the two crawlers: id -> item
    semi,       \* the intermediate store (SemiFinalDB): postId -> item
    semiSrc,    \* history: for each stored item, the write that put it
    final,      \* the final store: postId -> item
    finalSrc,   \* history: for each final item, the write that put it
    last        \* history: what the last handled record did

vars == <<clients, streams, gx, gq, inv, raw, semi, semiSrc, final, finalSrc, last>>

(***************************************************************************)
(* Python values                                                           *)
(***************************************************************************)
PyStr(s) == [str |-> s]
PyInt(n) == [int |-> n]
PyFloat(n, d) == [float |-> <<n, d>>]
PyBool(b) == [bool |-> b]
PyNone == [none |-> TRUE]
PyDict(f) == [dict |-> f]
PyList(s) == [list |-> s]
Exc(name) == [exc |-> name]
EmptyMap == [k \in {} |-> k]

IsTag(v, tag) == DOMAIN v = {tag}
IsExc(v) == IsTag(v, "exc")

\* A test for None in place of truthiness: an empty dict passes it.
TruthyUnlessNone(v) ==
    IF IsTag(v, "none") THEN FALSE
    ELSE IF IsTag(v, "bool") THEN v.bool
    ELSE IF IsTag(v, "int") THEN v.int # 0
    ELSE IF IsTag(v, "float") THEN v.float[1] # 0
    ELSE IF IsTag(v, "str") THEN v.str # ""
    ELSE IF IsTag(v, "list") THEN Len(v.list) > 0
    ELSE TRUE

\* Python truthiness, as `if x:` and `not x` evaluate it.
Truthy(v) ==
    IF IsTag(v, "none") THEN FALSE
    ELSE IF IsTag(v, "bool") THEN v.bool
    ELSE IF IsTag(v, "int") THEN v.int # 0
    ELSE IF IsTag(v, "float") THEN v.float[1] # 0
    ELSE IF IsTag(v, "str") THEN v.str # ""
    ELSE IF IsTag(v, "dict") THEN DOMAIN v.dict # {}
    ELSE IF IsTag(v, "list") THEN Len(v.list) > 0
    ELSE TRUE

\* dict.get(key, default)
DictGet(d, key, default) == IF key \in DOMAIN d THEN d[key] ELSE default

(***************************************************************************)
(* The inference service and call_gemini_for_extraction                    *)
(***************************************************************************)
MAX_RETRIES == 5
INITIAL_BACKOFF_TIME == 10

\* response.text.strip(): the texts of the model that carry outer whitespace.
Strip(t) ==
    IF t = "  {\"placeName\": \"Ramen A\", \"address\": \"Tokyo\"}\n"
    THEN "{\"placeName\": \"Ramen A\", \"address\": \"Tokyo\"}"
    ELSE t

\* json.loads on the response texts of the model; a text that is no JSON
\* document raises JSONDecodeError.
JsonLoads(t) ==
    CASE t = "{\"placeName\": \"Ramen A\", \"address\": \"Tokyo\"}" ->
            PyDict([placeName |-> PyStr("Ramen A"), address |-> PyStr("Tokyo")])
      [] t = "{\"placeName\": \"Cafe B\", \"address\": \"Osaka\"}" ->
            PyDict([placeName |-> PyStr("Cafe B"), address |-> PyStr("Osaka")])
      [] t = "{\"placeName\": \"Ramen A\", \"address\": null}" ->
            PyDict([placeName |-> PyStr("Ramen A"), address |-> PyNone])
      [] t = "{\"placeName\": null, \"address\": null}" ->
            PyDict([placeName |-> PyNone, address |-> PyNone])
      [] t = "{\"placeName\": \"Ramen A\"}" ->
            PyDict([placeName |-> PyStr("Ramen A")])
      [] t = "{\"shop\": \"Ramen A\"}" ->
            PyDict([shop |-> PyStr("Ramen A")])
      [] t = "{}" -> PyDict(EmptyMap)
      [] t = "[{\"placeName\": \"Ramen A\"}]" ->
            PyList(<<PyDict([placeName |-> PyStr("Ramen A")])>>)
      [] t = "[]" -> PyList(<<>>)
      [] t = "\"Ramen A\"" -> PyStr("Ramen A")
      [] t = "42" -> PyInt(42)
      [] t = "true" -> PyBool(TRUE)
      [] t = "null" -> PyNone
      [] OTHER -> Exc("JSONDecodeError")

\* The except clause's test for a rate-limit signal: the message holds
\* "TooManyRequests", or the exception has a response whose status is 429.
IsRateLimit(e) == e.tmr \/ (e.resp /\ e.code = 429)

\* Two departures from the loop below, against which the properties of the
\* loop are tried: one that keeps retrying past MAX_RETRIES, one that takes
\* every exception for a rate-limit signal.
GeminiIterationUncapped(g, o) ==
    LET asked == [g EXCEPT !.requests = @ + 1, !.hist = Append(@, o)]
        done(v) == [asked EXCEPT !.pc = "returned", !.ret = v]
    IN  IF o.kind = "text"
        THEN LET parsed == JsonLoads(Strip(o.text))
             IN  IF IsExc(parsed) THEN done(PyNone) ELSE done(parsed)
        ELSE IF IsRateLimit(o)
        THEN [asked EXCEPT !.waits = Append(@, INITIAL_BACKOFF_TIME * (2 ^ g.attempt)),
                           !.attempt = @ + 1]
        ELSE done(PyNone)

GeminiIterationRetryAll(g, o) ==
    LET asked == [g EXCEPT !.requests = @ + 1, !.hist = Append(@, o)]
        done(v) == [asked EXCEPT !.pc = "returned", !.ret = v]
    IN  IF o.kind = "text"
        THEN LET parsed == JsonLoads(Strip(o.text))
             IN  IF IsExc(parsed) THEN done(PyNone) ELSE done(parsed)
        ELSE LET slept == [asked EXCEPT !.attempt = @ + 1]
             IN  IF slept.attempt < MAX_RETRIES THEN slept
                 ELSE [slept EXCEPT !.pc = "returned", !.ret = PyNone]

\* One pass of the for loop: the request is answered by outcome o.
GeminiIteration(g, o) ==
    LET asked == [g EXCEPT !.requests = @ + 1, !.hist = Append(@, o)]
        done(v) == [asked EXCEPT !.pc = "returned", !.ret = v]
    IN  IF o.kind = "text"
        THEN LET parsed == JsonLoads(Strip(o.text))
             IN  IF IsExc(parsed) THEN done(PyNone) ELSE done(parsed)
        ELSE IF o.kind = "exc" /\ IsRateLimit(o)
        THEN LET slept == [asked EXCEPT
                            !.waits = Append(@, INITIAL_BACKOFF_TIME * (2 ^ g.attempt)),
                            !.attempt = @ + 1]
             IN  IF slept.attempt < MAX_RETRIES THEN slept
                 ELSE [slept EXCEPT !.pc = "returned", !.ret = PyNone]
        ELSE done(PyNone)

\* The state of a call on entry: without a client it returns None at once.
GeminiEnter(client) ==
    [pc |-> IF client THEN "loop" ELSE "returned", attempt |-> 0, requests |-> 0,
     waits |-> <<>>, hist |-> <<>>, ret |-> PyNone]

RECURSIVE GeminiRun(_, _)
GeminiRun(g, script) ==
    IF g.pc = "returned" \/ script = <<>> THEN g
    ELSE GeminiRun(GeminiIteration(g, Head(script)), Tail(script))

\* call_gemini_for_extraction against a service that answers by script.
call_gemini_for_extraction(client, script) == GeminiRun(GeminiEnter(client), script)

(***************************************************************************)
(* Number texts and unmarshal_dynamodb_json                                *)
(***************************************************************************)
Digits == <<"0", "1", "2", "3", "4", "5", "6", "7", "8", "9">>
IsDigit(c) == \E i \in 1..10 : Digits[i] = c
DigitVal(c) == (CHOOSE i \in 1..10 : Digits[i] = c) - 1

RECURSIVE Pow10(_)
Pow10(k) == IF k = 0 THEN 1 ELSE 10 * Pow10(k - 1)

RECURSIVE Gcd(_, _)
Gcd(a, b) == IF b = 0 THEN a ELSE Gcd(b, a % b)

\* The value of a run of digits.
RECURSIVE DigitsVal(_)
DigitsVal(t) ==
    IF t = <<>> THEN 0
    ELSE 10 * DigitsVal(SubSeq(t, 1, Len(t) - 1)) + DigitVal(t[Len(t)])

AllDigits(t) == t # <<>> /\ \A i \in 1..Len(t) : IsDigit(t[i])

\* int(text): an optional sign and digits, anything else raises ValueError.
ParseInt(t) ==
    LET neg == t # <<>> /\ t[1] = "-"
        body == IF neg THEN Tail(t) ELSE t
    IN  IF AllDigits(body)
        THEN PyInt(IF neg THEN -DigitsVal(body) ELSE DigitsVal(body))
        ELSE Exc("ValueError")

HasDot(t) == \E i \in 1..Len(t) : t[i] = "."

\* float(text) for a text with one decimal point, as the exact fraction.
ParseFloat(t) ==
    LET neg == t # <<>> /\ t[1] = "-"
        body == IF neg THEN Tail(t) ELSE t
        dot == CHOOSE i \in 1..Len(body) : body[i] = "."
        ip == SubSeq(body, 1, dot - 1)
        fp == SubSeq(body, dot + 1, Len(body))
        ok == /\ HasDot(body)
              /\ ip \o fp # <<>>
              /\ \A i \in 1..Len(ip \o fp) : IsDigit((ip \o fp)[i])
        num == DigitsVal(ip \o fp)
        den == Pow10(Len(fp))
        g == Gcd(num, den)
    IN  IF ~ok THEN Exc("ValueError")
        ELSE PyFloat((IF neg THEN -1 ELSE 1) * (num \div g), den \div g)

\* A number-tagged value.  Instagram extractor ("ig"): int() whatever the
\* text.  YouTube extractor ("yt") and geocoder ("geo"): int() without a
\* decimal point, else float().
Number(variant, t) ==
    IF variant = "ig" THEN ParseInt(t)
    ELSE IF ~HasDot(t) THEN ParseInt(t)
    ELSE ParseFloat(t)

\* The keys unmarshal keeps: string-tagged, number-tagged, non-empty map.
Kept(image) ==
    {k \in DOMAIN image :
        \/ "S" \in DOMAIN image[k]
        \/ "N" \in DOMAIN image[k]
        \/ ("M" \in DOMAIN image[k] /\ DOMAIN image[k].M # {})}

\* unmarshal_dynamodb_json: the dict, or the exception a number text raises.
RECURSIVE unmarshal_dynamodb_json(_, _)
unmarshal_dynamodb_json(variant, image) ==
    LET conv(k) ==
            IF "S" \in DOMAIN image[k] THEN PyStr(image[k].S)
            ELSE IF "N" \in DOMAIN image[k] THEN Number(variant, image[k].N)
            ELSE unmarshal_dynamodb_json(variant, image[k].M)
    IN  IF \E k \in Kept(image) : IsExc(conv(k))
        THEN Exc("ValueError")
        ELSE PyDict([k \in Kept(image) |-> conv(k)])

(***************************************************************************)
(* Timestamps: ISO 8601 strings and datetime.fromisoformat                 *)
(***************************************************************************)
\* s.replace('Z', '+00:00') on the timestamp strings of the model.
ReplaceZ(s) ==
    CASE s = "2024-01-01T00:00:00Z" -> "2024-01-01T00:00:00+00:00"
      [] s = "2024-01-02T00:00:00Z" -> "2024-01-02T00:00:00+00:00"
      [] OTHER -> s

\* datetime.fromisoformat: seconds since 2024-01-01T00:00:00 UTC and whether
\* the datetime carries an offset.  The "+0000" form of the Graph API parses
\* from Python 3.11 on and raises ValueError before.
FromIso(s, py311) ==
    CASE s = "2024-01-01T00:00:00+00:00" -> [secs |-> 0, aware |-> TRUE]
      [] s = "2024-01-01T00:05:00+00:00" -> [secs |-> 300, aware |-> TRUE]
      [] s = "2024-01-01T01:00:00+00:00" -> [secs |-> 3600, aware |-> TRUE]
      [] s = "2024-01-01T02:00:00+00:00" -> [secs |-> 7200, aware |-> TRUE]
      [] s = "2024-01-02T00:00:00+00:00" -> [secs |-> 86400, aware |-> TRUE]
      [] s = "2024-01-03T00:00:00+00:00" -> [secs |-> 172800, aware |-> TRUE]
      [] s = "2024-01-11T00:00:00+00:00" -> [secs |-> 864000, aware |-> TRUE]
      [] s = "2024-01-02T00:00:00" -> [secs |-> 86400, aware |-> FALSE]
      [] s = "2024-01-01T00:00:00+0000" ->
            IF py311 THEN [secs |-> 0, aware |-> TRUE] ELSE Exc("ValueError")
      [] OTHER -> Exc("ValueError")

\* (dt_crawled - dt_posted).total_seconds() of two timestamp values: they
\* must be strings (else .replace raises), parse, and agree on carrying an
\* offset (else the subtraction raises TypeError).
ElapsedSeconds(later, earlier, py311) ==
    IF ~IsTag(later, "str") \/ ~IsTag(earlier, "str") THEN Exc("AttributeError")
    ELSE LET a == FromIso(ReplaceZ(later.str), py311)
             b == FromIso(ReplaceZ(earlier.str), py311)
         IN  IF IsExc(a) \/ IsExc(b) THEN Exc("ValueError")
             ELSE IF a.aware # b.aware THEN Exc("TypeError")
             ELSE [secs |-> a.secs - b.secs]

(***************************************************************************)
(* Buzz scores.  A score is an exact fraction <<num, den>>, den > 0.       *)
(***************************************************************************)
IsNumber(v) == IsTag(v, "int") \/ IsTag(v, "float")
NumOf(v) == IF IsTag(v, "int") THEN <<v.int, 1>> ELSE v.float

Max(a, b) == IF a >= b THEN a ELSE b

\* The truncation without the upper bound of the clamp.
ClampTruncUncapped(num, den) == IF num <= den THEN 1 ELSE num \div den

\* The clamp followed by rounding to the nearest integer.
ClampRounded(num, den) ==
    IF num >= 5 * den THEN 5
    ELSE IF num <= den THEN 1
    ELSE (2 * num + den) \div (2 * den)

\* The integer part of the score taken modulo 5, in place of the clamp.
ClampWrapped(num, den) == IF num <= 0 THEN 1 ELSE ((num \div den) % 5) + 1

\* int(max(1, min(5, score)))
ClampTrunc(num, den) ==
    IF num >= 5 * den THEN 5
    ELSE IF num <= den THEN 1
    ELSE num \div den

\* Instagram, lines 106-130: likes / elapsed_days / 100.0 with elapsed_days
\* floored at 0.01 (864 s); 1 when a timestamp is missing.
BuzzIG(data, py311) ==
    LET likes == DictGet(data, "like_count", PyInt(0))
        ts == DictGet(data, "timestamp", PyNone)
        crawled == DictGet(data, "crawled_at", PyNone)
    IN  IF Truthy(ts) /\ Truthy(crawled)
        THEN LET el == ElapsedSeconds(crawled, ts, py311)
             IN  IF IsExc(el) THEN el
                 ELSE IF ~IsNumber(likes) THEN Exc("TypeError")
                 ELSE PyInt(ClampTrunc(NumOf(likes)[1] * 864,
                                       NumOf(likes)[2] * Max(el.secs, 864)))
        ELSE PyInt(1)

\* YouTube, lines 91-115: 100 * views / (subscribers * elapsed_hours) with
\* elapsed_hours floored at 1.0; 1 when a timestamp is missing or
\* subscribers <= 0.
BuzzYT(data, py311) ==
    LET views == DictGet(data, "views", PyInt(0))
        subs == DictGet(data, "subscriber_count", PyInt(1))
        published == DictGet(data, "published_at", PyNone)
        crawled == DictGet(data, "crawled_at", PyNone)
    IN  IF ~(Truthy(published) /\ Truthy(crawled)) THEN PyInt(1)
        ELSE IF ~IsNumber(subs) THEN Exc("TypeError")
        ELSE IF NumOf(subs)[1] <= 0 THEN PyInt(1)
        ELSE LET el == ElapsedSeconds(crawled, published, py311)
             IN  IF IsExc(el) THEN el
                 ELSE IF ~IsNumber(views) THEN Exc("TypeError")
                 ELSE PyInt(ClampTrunc(
                        NumOf(views)[1] * NumOf(subs)[2] * 360000,
                        NumOf(views)[2] * NumOf(subs)[1] * Max(el.secs, 3600)))

(***************************************************************************)
(* put_item: boto3's serializer and the store's key check                  *)
(***************************************************************************)
RECURSIVE NatText(_)
NatText(n) ==
    IF n < 10 THEN <<Digits[n + 1]>>
    ELSE NatText(n \div 10) \o <<Digits[(n % 10) + 1]>>

\* str(n) for an int
IntText(n) == IF n < 0 THEN <<"-">> \o NatText(-n) ELSE NatText(n)

\* TypeSerializer: a float is refused (TypeError), a Decimal keeps its text.
RECURSIVE Serialize(_)
Serialize(v) ==
    IF IsTag(v, "str") THEN [S |-> v.str]
    ELSE IF IsTag(v, "int") THEN [N |-> IntText(v.int)]
    ELSE IF IsTag(v, "decimal") THEN [N |-> v.decimal]
    ELSE IF IsTag(v, "none") THEN [NULL |-> TRUE]
    ELSE IF IsTag(v, "bool") THEN [BOOL |-> v.bool]
    ELSE IF IsTag(v, "dict")
    THEN IF \E k \in DOMAIN v.dict : IsExc(Serialize(v.dict[k]))
         THEN Exc("TypeError")
         ELSE [M |-> [k \in DOMAIN v.dict |-> Serialize(v.dict[k])]]
    ELSE IF IsTag(v, "list")
    THEN IF \E i \in 1..Len(v.list) : IsExc(Serialize(v.list[i]))
         THEN Exc("TypeError")
         ELSE [L |-> [i \in 1..Len(v.list) |-> Serialize(v.list[i])]]
    ELSE Exc("TypeError")

\* Table.put_item(Item=item) on a table whose primary key is the string
\* attribute pk: the stored item, or the exception raised.  dbOk is the
\* service's answer to a well-formed request.
PutItem(item, pk, dbOk) ==
    LET ser == Serialize(PyDict(item))
    IN  IF IsExc(ser) THEN ser
        ELSE IF ~("S" \in DOMAIN ser.M[pk] /\ ser.M[pk].S # "")
        THEN Exc("ClientError")
        ELSE IF ~dbOk THEN Exc("ClientError")
        ELSE [stored |-> ser.M]

(***************************************************************************)
(* The extractors: save_to_target_db, save_to_semifinal_db, the handlers   *)
(***************************************************************************)
NoPut == [ret |-> PyBool(FALSE), put |-> <<>>]

\* extracted_data.get(key, 'N/A')
ExtractedGet(ext, key) == DictGet(ext.dict, key, PyStr("N/A"))

\* InstagramExtractFunction.save_to_target_db: what it returns and the item
\* it puts, if any.  now is datetime.now(timezone.utc).isoformat().
save_to_target_db(cl, data, ext, now, dbOk) ==
    LET buzz == BuzzIG(data, cl.py311)
        item == [postId |-> data.media_id,
                 platform |-> PyStr("Instagram"),
                 url |-> data.permalink,
                 title |-> data.caption,
                 placeName |-> ExtractedGet(ext, "placeName"),
                 address |-> ExtractedGet(ext, "address"),
                 buzz |-> buzz,
                 fetchedAt |-> PyStr(now)]
        res == PutItem(item, "postId", dbOk)
    IN  IF ~cl.ig_ddb THEN NoPut
        ELSE IF IsExc(buzz) THEN NoPut
        ELSE IF ~({"media_id", "permalink", "caption"} \subseteq DOMAIN data)
        THEN NoPut
        ELSE IF ~IsTag(ext, "dict") THEN NoPut
        ELSE IF IsExc(res) THEN NoPut
        ELSE [ret |-> PyBool(TRUE), put |-> <<res.stored>>]

\* YoutubeExtractFunction.save_to_semifinal_db: the ClientError branch has
\* no return statement, so it returns None.
save_to_semifinal_db(cl, data, ext, dbOk) ==
    LET buzz == BuzzYT(data, cl.py311)
        item == [postId |-> data.videoId,
                 platform |-> PyStr("Youtube"),
                 url |-> data.url,
                 title |-> data.title,
                 placeName |-> ExtractedGet(ext, "placeName"),
                 address |-> ExtractedGet(ext, "address"),
                 buzz |-> buzz,
                 fetchedAt |-> data.crawled_at]
        res == PutItem(item, "postId", dbOk)
    IN  IF ~cl.yt_ddb THEN NoPut
        ELSE IF IsExc(buzz) THEN NoPut
        ELSE IF ~({"videoId", "url", "title", "crawled_at"} \subseteq DOMAIN data)
        THEN NoPut
        ELSE IF ~IsTag(ext, "dict") THEN NoPut
        ELSE IF IsExc(res)
        THEN [ret |-> IF res.exc = "ClientError" THEN PyNone ELSE PyBool(FALSE),
              put |-> <<>>]
        ELSE [ret |-> PyBool(TRUE), put |-> <<res.stored>>]

\* A test that lets every kind of change record through.
ActedWhateverKind(rec) == rec.eventName = rec.eventName

Acted(rec) == rec.eventName = "INSERT" \/ rec.eventName = "MODIFY"

\* The head of the Instagram handler's loop body, lines 167-175: a record
\* without a new image raises KeyError and a number text int() refuses
\* raises ValueError, neither caught; a record without media_id or caption
\* is passed over.
ReceiveIG(rec) ==
    IF ~Acted(rec) THEN [path |-> "ignored"]
    ELSE IF "NewImage" \notin DOMAIN rec.dynamodb THEN [path |-> "raised"]
    ELSE LET um == unmarshal_dynamodb_json("ig", rec.dynamodb.NewImage)
         IN  IF IsExc(um) THEN [path |-> "raised"]
             ELSE IF ~(/\ Truthy(DictGet(um.dict, "media_id", PyNone))
                       /\ Truthy(DictGet(um.dict, "caption", PyNone)))
             THEN [path |-> "skipped"]
             ELSE [path |-> "text", data |-> um.dict]

\* The head of the YouTube handler's loop body, lines 148-153: the text is
\* built from title and description with '' for a missing one, whatever the
\* record holds.
ReceiveYT(rec) ==
    IF ~Acted(rec) THEN [path |-> "ignored"]
    ELSE IF "NewImage" \notin DOMAIN rec.dynamodb THEN [path |-> "raised"]
    ELSE LET um == unmarshal_dynamodb_json("yt", rec.dynamodb.NewImage)
         IN  IF IsExc(um) THEN [path |-> "raised"]
             ELSE [path |-> "text", data |-> um.dict]

(***************************************************************************)
(* The geocoder: geocode_address, save_to_final_db, the handler            *)
(***************************************************************************)
\* A float or int of a provider response, carried as the text str() gives.
PyNum(text) == [num |-> text]

\* A conversion that hands on what is no number instead of raising.
DecimalOfStrUnchecked(v) ==
    IF IsTag(v, "num") THEN [decimal |-> v.num]
    ELSE IF IsTag(v, "int") THEN [decimal |-> IntText(v.int)]
    ELSE v

\* Decimal(str(v)): a number keeps its text, anything else raises.
DecimalOfStr(v) ==
    IF IsTag(v, "num") THEN [decimal |-> v.num]
    ELSE IF IsTag(v, "int") THEN [decimal |-> IntText(v.int)]
    ELSE Exc("InvalidOperation")

\* A test that knows 'N/A' only.
IsSentinelOnlyNA(address) == IsTag(address, "str") /\ address.str = "N/A"

\* address in ['N/A', 'null']
IsSentinel(address) == IsTag(address, "str") /\ address.str \in {"N/A", "null"}

\* The point read as [lat, lng].
PointToCoordsSwapped(point) == PyDict([lng |-> point[2], lat |-> point[1]])

\* The first result's point as {"lng": point[0], "lat": point[1]}.
PointToCoords(point) == PyDict([lng |-> point[1], lat |-> point[2]])

\* geocode_address, lines 42-70: what it returns and how many requests it
\* sent to the place index.  answer is the provider's answer to a request.
geocode_address(cl, address, answer) ==
    IF ~cl.geo_loc \/ ~Truthy(address) \/ IsSentinel(address) \/ ~cl.geo_index
    THEN [ret |-> PyNone, requests |-> 0]
    ELSE IF answer.kind = "results" /\ Len(answer.results) > 0
    THEN IF answer.results[1].wellFormed
         THEN [ret |-> PointToCoords(answer.results[1].point), requests |-> 1]
         ELSE [ret |-> PyNone, requests |-> 1]
    ELSE [ret |-> PyNone, requests |-> 1]

\* save_to_final_db, lines 73-108
save_to_final_db(cl, data, coords, dbOk) ==
    LET lat == DecimalOfStr(DictGet(coords.dict, "lat", PyNum(<<"0", ".", "0">>)))
        lng == DecimalOfStr(DictGet(coords.dict, "lng", PyNum(<<"0", ".", "0">>)))
        item == [postId |-> data.postId,
                 platform |-> data.platform,
                 url |-> data.url,
                 title |-> data.title,
                 fetchedAt |-> data.fetchedAt,
                 placeName |-> DictGet(data, "placeName", PyStr("N/A")),
                 address |-> DictGet(data, "address", PyStr("N/A")),
                 lat |-> lat,
                 lng |-> lng,
                 buzz |-> DictGet(data, "buzz", PyInt(0))]
        res == PutItem(item, "postId", dbOk)
    IN  IF ~cl.geo_ddb THEN NoPut
        ELSE IF ~({"postId", "platform", "url", "title", "fetchedAt"} \subseteq DOMAIN data)
        THEN NoPut
        ELSE IF IsExc(lat) \/ IsExc(lng) THEN NoPut
        ELSE IF IsExc(res) THEN NoPut
        ELSE [ret |-> PyBool(TRUE), put |-> <<res.stored>>]

\* The head of the geocoder's loop body, lines 117-126.
ReceiveGeo(rec) ==
    IF ~Acted(rec) THEN [path |-> "ignored"]
    ELSE IF "NewImage" \notin DOMAIN rec.dynamodb THEN [path |-> "raised"]
    ELSE LET um == unmarshal_dynamodb_json("geo", rec.dynamodb.NewImage)
             address == DictGet(um.dict, "address", PyNone)
         IN  IF IsExc(um) THEN [path |-> "raised"]
             ELSE IF ~(/\ Truthy(DictGet(um.dict, "postId", PyNone))
                       /\ Truthy(address)
                       /\ ~IsSentinel(address)
                       /\ ~IsTag(address, "none"))
             THEN [path |-> "skipped"]
             ELSE [path |-> "text", data |-> um.dict]

(***************************************************************************)
(* The YouTube crawler.  A response of the Data API is a record of the     *)
(* fields it carries; a count is the text of a number, as the API sends it. *)
(***************************************************************************)
Field(d, k, default) == IF k \in DOMAIN d THEN d[k] ELSE default

Extend(d, k, v) == [x \in DOMAIN d \cup {k} |-> IF x = k THEN v ELSE d[x]]

\* isodate.parse_duration(video["contentDetails"]["duration"]).total_seconds()
ParseDuration(video) ==
    IF "contentDetails" \notin DOMAIN video THEN Exc("KeyError")
    ELSE IF "duration" \notin DOMAIN video.contentDetails THEN Exc("KeyError")
    ELSE LET d == video.contentDetails.duration
         IN  CASE d = "PT45S" -> [secs |-> 45]
               [] d = "PT2M" -> [secs |-> 120]
               [] d = "PT2M1S" -> [secs |-> 121]
               [] d = "PT1H" -> [secs |-> 3600]
               [] d = "P0D" -> [secs |-> 0]
               [] OTHER -> Exc("ISO8601Error")

\* f"https://www.youtube.com/watch?v={video_id}" for the ids of the model
WatchUrl(id) ==
    CASE id = "p1" -> "https://www.youtube.com/watch?v=p1"
      [] id = "p2" -> "https://www.youtube.com/watch?v=p2"
      [] OTHER -> "https://www.youtube.com/watch?v="

\* Lines 93-94: channel id -> subscriberCount, a later item replacing an
\* earlier one; an item without id or statistics raises KeyError.
ChannelStats(items) ==
    IF \E i \in 1..Len(items) :
          "id" \notin DOMAIN items[i] \/ "statistics" \notin DOMAIN items[i]
    THEN Exc("KeyError")
    ELSE [stats |->
            [c \in {items[i].id : i \in 1..Len(items)} |->
                LET j == CHOOSE j \in 1..Len(items) :
                            /\ items[j].id = c
                            /\ \A m \in (j + 1)..Len(items) : items[m].id # c
                IN  Field(items[j].statistics, "subscriberCount", <<"0">>)]]

\* get_youtube_videos, lines 31-111: the list it returns and the number of
\* requests it sent.  Every exception inside ends in the empty list.
get_youtube_videos(cl, api) ==
    IF ~cl.ytc_client THEN [ret |-> <<>>, requests |-> 0]
    ELSE IF api.search.kind = "exc" THEN [ret |-> <<>>, requests |-> 1]
    ELSE IF \E i \in 1..Len(api.search.items) : "videoId" \notin DOMAIN api.search.items[i].id
    THEN [ret |-> <<>>, requests |-> 1]
    ELSE IF api.search.items = <<>> THEN [ret |-> <<>>, requests |-> 1]
    ELSE IF api.videos.kind = "exc" THEN [ret |-> <<>>, requests |-> 2]
    ELSE LET short(v) == ~IsExc(ParseDuration(v)) /\ ParseDuration(v).secs <= 120
             kept == SelectSeq(api.videos.items, short)
             hasChannel(v) == "snippet" \in DOMAIN v /\ "channelId" \in DOMAIN v.snippet
             channel_ids == {kept[i].snippet.channelId :
                                i \in {j \in 1..Len(kept) : hasChannel(kept[j])}}
             requests == IF channel_ids # {} THEN 3 ELSE 2
             stats == IF channel_ids = {} THEN [stats |-> EmptyMap]
                      ELSE IF api.channels.kind = "exc" THEN Exc("HttpError")
                      ELSE ChannelStats(api.channels.items)
             subscribers(v) == ParseInt(Field(stats.stats, v.snippet.channelId, <<"0">>))
         IN  IF IsExc(stats) THEN [ret |-> <<>>, requests |-> requests]
             ELSE IF \E i \in 1..Len(kept) :
                        \/ "id" \notin DOMAIN kept[i]
                        \/ ~hasChannel(kept[i])
                        \/ IsExc(subscribers(kept[i]))
             THEN [ret |-> <<>>, requests |-> requests]
             ELSE [ret |-> [i \in 1..Len(kept) |->
                              Extend(kept[i], "subscriber_count", subscribers(kept[i]))],
                   requests |-> requests]

\* save_to_youtube_db, lines 115-145.  The ClientError branch has no return
\* statement; a video without id makes the except branch itself raise.
save_to_youtube_db(cl, video, now, dbOk) ==
    IF ~cl.ytc_ddb THEN NoPut
    ELSE IF "id" \notin DOMAIN video THEN [ret |-> Exc("UnboundLocalError"), put |-> <<>>]
    ELSE IF "snippet" \notin DOMAIN video \/ "statistics" \notin DOMAIN video THEN NoPut
    ELSE LET snippet == video.snippet
             views == ParseInt(Field(video.statistics, "viewCount", <<"0">>))
             likes == ParseInt(Field(video.statistics, "likeCount", <<"0">>))
             item == [videoId |-> PyStr(video.id),
                      title |-> PyStr(Field(snippet, "title", "No Title")),
                      description |-> PyStr(Field(snippet, "description", "No Description")),
                      url |-> PyStr(WatchUrl(video.id)),
                      views |-> views,
                      likes |-> likes,
                      published_at |-> IF "publishedAt" \in DOMAIN snippet
                                       THEN PyStr(snippet.publishedAt) ELSE PyNone,
                      crawled_at |-> PyStr(now),
                      subscriber_count |-> Field(video, "subscriber_count", PyInt(0))]
             res == PutItem(item, "videoId", dbOk)
         IN  IF IsExc(views) \/ IsExc(likes) THEN NoPut
             ELSE IF IsExc(res)
             THEN [ret |-> IF res.exc = "ClientError" THEN PyNone ELSE PyBool(FALSE),
                   put |-> <<>>]
             ELSE [ret |-> PyBool(TRUE), put |-> <<res.stored>>]

(***************************************************************************)
(* The Instagram crawler.  A media object of the Graph API is a dict of    *)
(* Python values.                                                          *)
(***************************************************************************)
MAX_COUNT == 80
MAX_DAYS == 30

\* get_hashtag_id, lines 27-61: without token or account id it returns None
\* and sends nothing; a first result without "id" raises KeyError.
get_hashtag_id(cl, answer) ==
    IF ~cl.igc_token \/ ~cl.igc_account THEN [ret |-> PyNone, requests |-> 0]
    ELSE IF answer.kind = "error" THEN [ret |-> PyNone, requests |-> 1]
    ELSE IF answer.data = <<>> THEN [ret |-> PyNone, requests |-> 1]
    ELSE IF "id" \notin DOMAIN answer.data[1] THEN [ret |-> Exc("KeyError"), requests |-> 1]
    ELSE [ret |-> PyStr(answer.data[1].id), requests |-> 1]

\* datetime.strptime(t, '%Y-%m-%dT%H:%M:%S%z') as seconds since
\* 2024-01-01T00:00:00 UTC; None raises TypeError.
StrpTime(t) ==
    IF ~IsTag(t, "str") THEN Exc("TypeError")
    ELSE CASE t.str = "2024-01-01T00:00:00+0000" -> [secs |-> 0]
           [] t.str = "2024-01-01T00:00:00Z" -> [secs |-> 0]
           [] t.str = "2023-12-01T00:00:00+0000" -> [secs |-> -2678400]
           [] OTHER -> Exc("ValueError")

\* A loop over one page that passes over an item older than the limit and
\* goes on with the items after it.
RECURSIVE TakeMediaPassingOld(_, _, _, _)
TakeMediaPassingOld(all, data, limit, max_count) ==
    IF data = <<>> THEN [all |-> all, end |-> "page"]
    ELSE LET ts == StrpTime(DictGet(Head(data), "timestamp", PyNone))
         IN  IF IsExc(ts) THEN [all |-> all, end |-> "raise"]
             ELSE IF ts.secs < limit
             THEN TakeMediaPassingOld(all, Tail(data), limit, max_count)
             ELSE IF Len(all) >= max_count THEN [all |-> all, end |-> "return"]
             ELSE TakeMediaPassingOld(Append(all, Head(data)), Tail(data), limit, max_count)

\* The for loop over one page, lines 94-105.
RECURSIVE TakeMedia(_, _, _, _)
TakeMedia(all, data, limit, max_count) ==
    IF data = <<>> THEN [all |-> all, end |-> "page"]
    ELSE LET ts == StrpTime(DictGet(Head(data), "timestamp", PyNone))
         IN  IF IsExc(ts) THEN [all |-> all, end |-> "raise"]
             ELSE IF ts.secs < limit THEN [all |-> all, end |-> "return"]
             ELSE IF Len(all) >= max_count THEN [all |-> all, end |-> "return"]
             ELSE TakeMedia(Append(all, Head(data)), Tail(data), limit, max_count)

\* The while loop, lines 84-122: pages answers the requests in order, and a
\* request past its end fails.  raised says that an exception left the loop.
RECURSIVE MediaLoop(_, _, _, _, _)
MediaLoop(all, pages, requests, limit, max_count) ==
    IF Len(all) >= max_count THEN [ret |-> all, raised |-> FALSE, requests |-> requests]
    ELSE IF pages = <<>> \/ Head(pages).kind = "error"
    THEN [ret |-> all, raised |-> FALSE, requests |-> requests + 1]
    ELSE LET t == TakeMedia(all, Head(pages).data, limit, max_count)
         IN  IF t.end = "raise"
             THEN [ret |-> <<>>, raised |-> TRUE, requests |-> requests + 1]
             ELSE IF t.end = "return"
             THEN [ret |-> t.all, raised |-> FALSE, requests |-> requests + 1]
             ELSE IF Head(pages).next
             THEN MediaLoop(t.all, Tail(pages), requests + 1, limit, max_count)
             ELSE [ret |-> t.all, raised |-> FALSE, requests |-> requests + 1]

\* get_top_hashtag_media, lines 64-124; now is datetime.now(timezone.utc).
get_top_hashtag_media(hashtag_id, max_count, max_days, now, pages) ==
    IF ~Truthy(hashtag_id) THEN [ret |-> <<>>, raised |-> FALSE, requests |-> 0]
    ELSE MediaLoop(<<>>, pages, 0, FromIso(now, TRUE).secs - max_days * 86400, max_count)

\* float(x.get('like_count', 0))
LikeKey(media) ==
    LET v == DictGet(media, "like_count", PyInt(0))
    IN  IF IsTag(v, "int") THEN v ELSE Exc("TypeError")

\* sorted(..., reverse=True): stable, largest like_count first.
RECURSIVE InsertByLikes(_, _)
InsertByLikes(sorted, media) ==
    IF sorted = <<>> THEN <<media>>
    ELSE IF LikeKey(Head(sorted)).int >= LikeKey(media).int
    THEN <<Head(sorted)>> \o InsertByLikes(Tail(sorted), media)
    ELSE <<media>> \o sorted

RECURSIVE SortByLikes(_)
SortByLikes(list) ==
    IF list = <<>> THEN <<>>
    ELSE InsertByLikes(SortByLikes(SubSeq(list, 1, Len(list) - 1)), list[Len(list)])

\* Lines 171-180: the list is left as it is when a key cannot be computed.
media_list_sorted(list) ==
    IF \E i \in 1..Len(list) : IsExc(LikeKey(list[i])) THEN list ELSE SortByLikes(list)

\* caption.replace('\n', ' ') on the captions of the model
ReplaceNewline(c) == IF c = "ramen\nin shibuya" THEN "ramen in shibuya" ELSE c

\* save_to_dynamodb, lines 127-151
save_to_dynamodb(cl, media, now, dbOk) ==
    LET caption == DictGet(media, "caption", PyStr(" "))
        likes == LikeKey(media)
        comments == DictGet(media, "comments_count", PyInt(0))
        item == [media_id |-> DictGet(media, "id", PyNone),
                 permalink |-> DictGet(media, "permalink", PyNone),
                 caption |-> PyStr(ReplaceNewline(caption.str)),
                 timestamp |-> DictGet(media, "timestamp", PyNone),
                 like_count |-> likes,
                 comments_count |-> comments,
                 media_type |-> DictGet(media, "media_type", PyNone),
                 crawled_at |-> PyStr(now)]
        res == PutItem(item, "media_id", dbOk)
    IN  IF ~cl.igc_table THEN NoPut
        ELSE IF ~IsTag(caption, "str") THEN NoPut
        ELSE IF IsExc(likes) \/ ~IsTag(comments, "int") THEN NoPut
        ELSE IF IsExc(res) THEN NoPut
        ELSE [ret |-> PyBool(TRUE), put |-> <<res.stored>>]

(***************************************************************************)
(* Module initialisation: the client handles each component builds from    *)
(* its environment when it is loaded.  env.set holds the names with a      *)
(* non-empty value, env.empty the names set to the empty string; ctor says *)
(* which client constructor, if any, raises.                               *)
(***************************************************************************)
Components == {"ig_extractor", "yt_extractor", "geocoder", "yt_crawler", "ig_crawler"}

NoClients ==
    [comp |-> "none", py311 |-> FALSE, missing |-> FALSE,
     ig_gemini |-> FALSE, ig_ddb |-> FALSE,
     yt_gemini |-> FALSE, yt_ddb |-> FALSE,
     geo_loaded |-> FALSE, geo_ddb |-> FALSE, geo_loc |-> FALSE, geo_index |-> FALSE,
     ytc_client |-> FALSE, ytc_ddb |-> FALSE,
     igc_token |-> FALSE, igc_account |-> FALSE, igc_table |-> FALSE]

Has(env, name) == name \in env.set

\* InstagramExtractFunction, lines 12-37
InitInstagramExtractor(env, ctor) ==
    LET configured == /\ Has(env, "GEMINI_API_KEY")
                      /\ Has(env, "TARGET_DYNAMODB_TABLE_NAME")
                      /\ (Has(env, "TARGET_DB_REGION") \/ Has(env, "AWS_REGION"))
    IN  [NoClients EXCEPT
            !.missing = ~configured,
            !.ig_gemini = configured /\ ctor # "api_client",
            !.ig_ddb = configured /\ ctor = "none"]

\* YoutubeExtractFunction, lines 12-30: table name and region have defaults.
InitYoutubeExtractor(env, ctor) ==
    LET key == Has(env, "GEMINI_API_KEY")
    IN  [NoClients EXCEPT
            !.missing = ~key,
            !.yt_gemini = key /\ ctor # "api_client",
            !.yt_ddb = IF key THEN ctor = "none" ELSE ctor # "boto3"]

\* GeoCodeingFunction, lines 10-25: os.environ[...] raises KeyError for an
\* absent name, and the module then fails to load.
InitGeocoder(env, ctor) ==
    LET present(n) == n \in env.set \cup env.empty
        loaded == present("TARGET_DYNAMODB_TABLE_NAME") /\ present("PLACE_INDEX_NAME")
    IN  [NoClients EXCEPT
            !.missing = ~loaded,
            !.geo_loaded = loaded,
            !.geo_ddb = loaded /\ ctor # "boto3",
            !.geo_loc = loaded /\ ctor # "boto3",
            !.geo_index = loaded /\ Has(env, "PLACE_INDEX_NAME")]

\* YoutubeCrawlFunction, lines 12-28: Table(None) raises when TARGET_DB_NAME
\* is absent, after the API client was built.
InitYoutubeCrawler(env, ctor) ==
    LET key == Has(env, "YOUTUBE_API_KEY")
    IN  [NoClients EXCEPT
            !.missing = ~key \/ ~Has(env, "TARGET_DB_NAME"),
            !.ytc_client = key /\ ctor # "api_client",
            !.ytc_ddb = /\ Has(env, "TARGET_DB_NAME")
                        /\ IF key THEN ctor = "none" ELSE ctor # "boto3"]

\* InstagramCrawlFunction, lines 8-24: the token and the account id default
\* to placeholders, the table name to a real name.
InitInstagramCrawler(env, ctor) ==
    [NoClients EXCEPT
        !.missing = ~Has(env, "ACCESS_TOKEN") \/ ~Has(env, "INSTAGRAM_BUSINESS_ACCOUNT_ID"),
        !.igc_token = Has(env, "ACCESS_TOKEN"),
        !.igc_account = Has(env, "INSTAGRAM_BUSINESS_ACCOUNT_ID"),
        !.igc_table = ctor # "boto3"]

InitClients(comp, env, ctor, py311) ==
    [(CASE comp = "ig_extractor" -> InitInstagramExtractor(env, ctor)
        [] comp = "yt_extractor" -> InitYoutubeExtractor(env, ctor)
        [] comp = "geocoder" -> InitGeocoder(env, ctor)
        [] comp = "yt_crawler" -> InitYoutubeCrawler(env, ctor)
        [] comp = "ig_crawler" -> InitInstagramCrawler(env, ctor))
     EXCEPT !.py311 = py311, !.comp = comp]

EnvNames ==
    {"GEMINI_API_KEY", "TARGET_DYNAMODB_TABLE_NAME", "TARGET_DB_REGION", "AWS_REGION",
     "PLACE_INDEX_NAME", "YOUTUBE_API_KEY", "TARGET_DB_NAME", "ACCESS_TOKEN",
     "INSTAGRAM_BUSINESS_ACCOUNT_ID"}

\* The environments of the model: complete, one name absent, the place
\* index set to the empty string.
Envs ==
    {[set |-> EnvNames, empty |-> {}]}
    \cup {[set |-> EnvNames \ {n}, empty |-> {}] : n \in EnvNames}
    \cup {[set |-> EnvNames \ {"PLACE_INDEX_NAME"}, empty |-> {"PLACE_INDEX_NAME"}]}

Ctors == {"none", "api_client", "boto3"}

\* The handler's check on entry that its clients exist.
ClientsReady(cl, comp) ==
    CASE comp = "ig_extractor" -> cl.ig_gemini /\ cl.ig_ddb
      [] comp = "yt_extractor" -> cl.yt_ddb /\ cl.yt_gemini
      [] comp = "geocoder" -> cl.geo_ddb /\ cl.geo_loc
      [] OTHER -> TRUE

(***************************************************************************)
(* Inputs: answers of the inference service, change records of the raw     *)
(* stores                                                                  *)
(***************************************************************************)
TooManyRequests == [kind |-> "exc", tmr |-> TRUE, resp |-> FALSE, code |-> 0]
Http429 == [kind |-> "exc", tmr |-> FALSE, resp |-> TRUE, code |-> 429]
Http500 == [kind |-> "exc", tmr |-> FALSE, resp |-> TRUE, code |-> 500]
Unexpected == [kind |-> "exc", tmr |-> FALSE, resp |-> FALSE, code |-> 0]
Answer(t) == [kind |-> "text", text |-> t]

RateLimitSignals == {TooManyRequests, Http429}
OtherErrors == {Http500, Unexpected}

ObjectTexts ==
    {"{\"placeName\": \"Ramen A\", \"address\": \"Tokyo\"}",
     "  {\"placeName\": \"Ramen A\", \"address\": \"Tokyo\"}\n",
     "{\"placeName\": \"Cafe B\", \"address\": \"Osaka\"}",
     "{\"placeName\": \"Ramen A\", \"address\": null}",
     "{\"placeName\": null, \"address\": null}",
     "{\"placeName\": \"Ramen A\"}",
     "{\"shop\": \"Ramen A\"}",
     "{}"}
\* Texts holding JSON that is no object, and texts that are no JSON.
OtherTexts ==
    {"[{\"placeName\": \"Ramen A\"}]", "[]", "\"Ramen A\"", "42", "true", "null",
     "Sorry, I cannot help", ""}

Outcomes ==
    RateLimitSignals \cup OtherErrors
    \cup {Answer(t) : t \in ObjectTexts \cup OtherTexts}

\* The scripts the extractor runs are played against: each ends the call.
RECURSIVE Repeat(_, _)
Repeat(o, k) == IF k = 0 THEN <<>> ELSE <<o>> \o Repeat(o, k - 1)

Scripts ==
    {<<Answer(t)>> : t \in (ObjectTexts \cup {"[{\"placeName\": \"Ramen A\"}]", "null", ""})
                           \ {"  {\"placeName\": \"Ramen A\", \"address\": \"Tokyo\"}\n"}}
    \cup {<<Http500>>,
          <<TooManyRequests, Http429, Answer("{\"placeName\": \"Cafe B\", \"address\": \"Osaka\"}")>>,
          Repeat(Http429, MAX_RETRIES)}

Insert(image) == [eventName |-> "INSERT", dynamodb |-> [NewImage |-> image]]
Modify(image) == [eventName |-> "MODIFY", dynamodb |-> [NewImage |-> image]]
Remove(key, id) == [eventName |-> "REMOVE", dynamodb |-> [Keys |-> [k \in {key} |-> [S |-> id]]]]
\* An INSERT of a stream that carries keys only.
KeysOnly(key, id) == [eventName |-> "INSERT", dynamodb |-> [Keys |-> [k \in {key} |-> [S |-> id]]]]

Txt(n) == [N |-> n]
Str(x) == [S |-> x]

Without(f, keys) == [k \in DOMAIN f \ keys |-> f[k]]

\* An item as InstagramCrawlFunction.save_to_dynamodb writes it.
MediaP1 ==
    [media_id |-> Str("p1"), permalink |-> Str("https://instagram.example/p1"),
     caption |-> Str("ramen in shibuya"), timestamp |-> Str("2024-01-01T00:00:00+0000"),
     like_count |-> Txt(<<"5", "0", "0">>), comments_count |-> Txt(<<"7">>),
     media_type |-> Str("IMAGE"), crawled_at |-> Str("2024-01-02T00:00:00+00:00")]

InstagramImages ==
    {MediaP1,
     \* a re-crawl of p1: other caption, permalink and count, raw score 2.5
     [MediaP1 EXCEPT !.caption = Str("cafe in umeda"),
                     !.permalink = Str("https://instagram.example/p1b"),
                     !.timestamp = Str("2024-01-01T00:00:00Z"),
                     !.like_count = Txt(<<"2", "5", "0">>)],
     \* 10 likes over 10 days
     [MediaP1 EXCEPT !.media_id = Str("p2"),
                     !.timestamp = Str("2024-01-01T00:00:00Z"),
                     !.crawled_at = Str("2024-01-11T00:00:00+00:00"),
                     !.like_count = Txt(<<"1", "0">>)],
     \* 500 likes five minutes after posting, raw score 500
     [MediaP1 EXCEPT !.timestamp = Str("2024-01-01T00:00:00Z"),
                     !.crawled_at = Str("2024-01-01T00:05:00+00:00")],
     \* 490 likes over one day, raw score 4.9
     [MediaP1 EXCEPT !.timestamp = Str("2024-01-01T00:00:00Z"),
                     !.like_count = Txt(<<"4", "9", "0">>)],
     \* no timestamps, or one of the two
     Without(MediaP1, {"timestamp", "crawled_at"}),
     Without(MediaP1, {"timestamp"}),
     Without(MediaP1, {"crawled_at"}),
     \* crawled before it was posted
     [MediaP1 EXCEPT !.timestamp = Str("2024-01-02T00:00:00Z"),
                     !.crawled_at = Str("2024-01-01T00:05:00+00:00"),
                     !.like_count = Txt(<<"3">>)],
     \* a negative and a zero count
     [MediaP1 EXCEPT !.media_id = Str("p2"), !.timestamp = Str("2024-01-01T00:00:00Z"),
                     !.like_count = Txt(<<"-", "5">>)],
     [MediaP1 EXCEPT !.timestamp = Str("2024-01-01T00:00:00Z"),
                     !.like_count = Txt(<<"0">>)],
     \* required fields missing or empty
     Without(MediaP1, {"caption"}),
     Without(MediaP1, {"media_id"}),
     [MediaP1 EXCEPT !.caption = Str("")],
     Without(MediaP1, {"permalink"}),
     \* values the scoring cannot use
     [MediaP1 EXCEPT !.timestamp = Str("yesterday")],
     [MediaP1 EXCEPT !.timestamp = Str("2024-01-02T00:00:00")],
     [MediaP1 EXCEPT !.like_count = Str("many")],
     \* a number text with a decimal point
     [MediaP1 EXCEPT !.like_count = Txt(<<"1", ".", "5">>)],
     \* a nested map, an empty map and a value under another tag
     Extend(Extend(Extend(MediaP1, "owner", [M |-> [id |-> Str("u1"), posts |-> Txt(<<"7">>)]]),
                   "children", [M |-> <<>>]), "is_shared", [BOOL |-> FALSE])}

InstagramRecords ==
    {Insert(i) : i \in InstagramImages}
    \cup {Modify(MediaP1), Remove("media_id", "p1"), KeysOnly("media_id", "p1")}

\* An item as YoutubeCrawlFunction.save_to_youtube_db writes it.
VideoP1 ==
    [videoId |-> Str("p1"), title |-> Str("ramen tour"), description |-> Str("shibuya"),
     url |-> Str("https://www.youtube.com/watch?v=p1"),
     views |-> Txt(<<"1", "0", "0", "0">>), likes |-> Txt(<<"9">>),
     published_at |-> Str("2024-01-01T00:00:00Z"),
     crawled_at |-> Str("2024-01-01T02:00:00+00:00"),
     subscriber_count |-> Txt(<<"1", "0", "0">>)]

YoutubeImages ==
    {VideoP1,
     \* a re-crawl of p1 five minutes after publication, raw score 3
     [VideoP1 EXCEPT !.title = Str("cafe tour"), !.views = Txt(<<"3">>),
                     !.crawled_at = Str("2024-01-01T00:05:00+00:00")],
     \* 1 view, 1000 subscribers
     [VideoP1 EXCEPT !.videoId = Str("p2"), !.views = Txt(<<"1">>),
                     !.subscriber_count = Txt(<<"1", "0", "0", "0">>)],
     \* 1 view, 1000 subscribers, one hour
     [VideoP1 EXCEPT !.views = Txt(<<"1">>), !.subscriber_count = Txt(<<"1", "0", "0", "0">>),
                     !.crawled_at = Str("2024-01-01T01:00:00+00:00")],
     \* subscriber counts of zero and below, a negative view count
     [VideoP1 EXCEPT !.subscriber_count = Txt(<<"0">>)],
     [VideoP1 EXCEPT !.videoId = Str("p2"), !.subscriber_count = Txt(<<"-", "1">>)],
     [VideoP1 EXCEPT !.views = Txt(<<"-", "4">>)],
     \* fractional counts
     [VideoP1 EXCEPT !.views = Txt(<<"4", ".", "5">>), !.subscriber_count = Txt(<<"9", "0">>)],
     \* published after it was crawled
     [VideoP1 EXCEPT !.published_at = Str("2024-01-02T00:00:00Z"), !.views = Txt(<<"2">>)],
     \* missing fields
     Without(VideoP1, {"published_at"}),
     Without(VideoP1, {"crawled_at"}),
     Without(VideoP1, {"subscriber_count"}),
     Without(VideoP1, {"videoId"}),
     Without(VideoP1, {"title", "description"}),
     \* values the scoring cannot use
     [VideoP1 EXCEPT !.published_at = Str("yesterday")],
     [VideoP1 EXCEPT !.subscriber_count = Str("many")],
     [VideoP1 EXCEPT !.views = Txt(<<"1", ".", "2", ".", "3">>)],
     \* a nested map, an empty map and a value under another tag
     Extend(Extend(Extend(VideoP1, "channel", [M |-> [id |-> Str("c1"),
                                                     rating |-> Txt(<<"4", ".", "5">>)]]),
                   "tags", [M |-> <<>>]), "live", [BOOL |-> FALSE])}

YoutubeRecords ==
    {Insert(i) : i \in YoutubeImages}
    \cup {Modify(VideoP1), Remove("videoId", "p1"), KeysOnly("videoId", "p1")}

\* datetime.now(timezone.utc).isoformat() at the moments of the model
Clock == {"2024-01-12T09:00:00.000001+00:00"}

\* Answers of the place index to search_place_index_for_text
Place(x, y) == [wellFormed |-> TRUE, point |-> <<PyNum(x), PyNum(y)>>]
Shibuya == Place(<<"1", "3", "9", ".", "7">>, <<"3", "5", ".", "6", "5">>)
GeoAnswers ==
    {[kind |-> "results", results |-> <<Shibuya>>],
     [kind |-> "results",
      results |-> <<Place(<<"1", "3", "5", ".", "5">>, <<"3", "4", ".", "7">>)>>],
     \* whole degrees, as JSON integers
     [kind |-> "results", results |-> <<[wellFormed |-> TRUE, point |-> <<PyInt(140), PyInt(36)>>]>>],
     [kind |-> "results", results |-> <<>>],
     \* a result without Place.Geometry.Point, a point holding null
     [kind |-> "results", results |-> <<[wellFormed |-> FALSE]>>],
     [kind |-> "results", results |-> <<[wellFormed |-> TRUE, point |-> <<PyNone, PyNone>>]>>],
     [kind |-> "ClientError"],
     [kind |-> "Exception"]}

\* An item as the extractors write it.
SemiP1 ==
    [postId |-> Str("p1"), platform |-> Str("Instagram"),
     url |-> Str("https://instagram.example/p1"), title |-> Str("ramen in shibuya"),
     placeName |-> Str("Ramen A"), address |-> Str("Tokyo"),
     buzz |-> Txt(<<"5">>), fetchedAt |-> Str("2024-01-12T09:00:00.000001+00:00")]

SemiImages ==
    {SemiP1,
     \* p1 extracted again with another result
     [SemiP1 EXCEPT !.placeName = Str("Cafe B"), !.address = Str("Osaka"),
                    !.title = Str("cafe in umeda"), !.buzz = Txt(<<"2">>)],
     [SemiP1 EXCEPT !.postId = Str("p2"), !.platform = Str("Youtube"),
                    !.url = Str("https://www.youtube.com/watch?v=p2"),
                    !.fetchedAt = Str("2024-01-01T02:00:00+00:00")],
     \* no address found
     [SemiP1 EXCEPT !.address = Str("N/A")],
     [SemiP1 EXCEPT !.address = Str("null")],
     [SemiP1 EXCEPT !.address = Str("")],
     [SemiP1 EXCEPT !.address = [NULL |-> TRUE], !.placeName = [NULL |-> TRUE]],
     Without(SemiP1, {"address"}),
     \* a place name the model left null
     [SemiP1 EXCEPT !.placeName = [NULL |-> TRUE]],
     \* fields missing, a fractional buzz
     Without(SemiP1, {"postId"}),
     Without(SemiP1, {"title"}),
     Without(SemiP1, {"buzz", "placeName"}),
     [SemiP1 EXCEPT !.buzz = Txt(<<"2", ".", "5">>)]}

SemiRecords ==
    {Insert(i) : i \in SemiImages}
    \cup {Modify(SemiP1), Remove("postId", "p1"), KeysOnly("postId", "p1")}

\* Answers of the YouTube Data API to the three requests of a crawl.
Items(list) == [kind |-> "items", items |-> list]
Failed == [kind |-> "exc"]
Found(id) == [id |-> [kind |-> "youtube#video", videoId |-> id]]

\* The video behind VideoP1, and others the crawl treats differently.
ApiVideoP1 ==
    [id |-> "p1",
     contentDetails |-> [duration |-> "PT45S"],
     snippet |-> [channelId |-> "ch1", title |-> "ramen tour", description |-> "shibuya",
                  publishedAt |-> "2024-01-01T00:00:00Z"],
     statistics |-> [viewCount |-> <<"1", "0", "0", "0">>, likeCount |-> <<"9">>]]
ApiVideoP2 ==
    [ApiVideoP1 EXCEPT !.id = "p2", !.contentDetails = [duration |-> "PT2M"],
                       !.snippet = [channelId |-> "ch2", title |-> "cafe tour"],
                       !.statistics = [viewCount |-> <<"3">>]]
ApiVideoLong == [ApiVideoP1 EXCEPT !.id = "p3", !.contentDetails = [duration |-> "PT2M1S"]]
ApiChannel1 == [id |-> "ch1", statistics |-> [subscriberCount |-> <<"1", "0", "0">>]]

YoutubeApis ==
    {[search |-> Failed, videos |-> Failed, channels |-> Failed],
     [search |-> Items(<<>>), videos |-> Failed, channels |-> Failed],
     [search |-> Items(<<[id |-> [kind |-> "youtube#channel"]]>>),
      videos |-> Items(<<ApiVideoP1>>), channels |-> Items(<<ApiChannel1>>)],
     [search |-> Items(<<Found("p1")>>), videos |-> Failed, channels |-> Failed],
     [search |-> Items(<<Found("p1")>>), videos |-> Items(<<ApiVideoP1>>), channels |-> Failed],
     [search |-> Items(<<Found("p1")>>), videos |-> Items(<<ApiVideoP1>>),
      channels |-> Items(<<ApiChannel1>>)],
     [search |-> Items(<<Found("p1"), Found("p2")>>),
      videos |-> Items(<<ApiVideoP1, ApiVideoP2>>),
      channels |-> Items(<<ApiChannel1,
                           [id |-> "ch2", statistics |-> [hiddenSubscriberCount |-> TRUE]]>>)],
     [search |-> Items(<<Found("p3"), Found("p2")>>),
      videos |-> Items(<<ApiVideoLong, ApiVideoP2,
                         [ApiVideoP1 EXCEPT !.id = "p3",
                                            !.contentDetails = [duration |-> "P0D"]]>>),
      channels |-> Items(<<>>)],
     [search |-> Items(<<Found("p3")>>), videos |-> Items(<<ApiVideoLong>>),
      channels |-> Failed],
     [search |-> Items(<<Found("p1"), Found("p2")>>),
      videos |-> Items(<<[ApiVideoP1 EXCEPT !.statistics = [viewCount |-> <<"m", "a", "n", "y">>]],
                         ApiVideoP2>>),
      channels |-> Items(<<ApiChannel1>>)],
     [search |-> Items(<<Found("p1")>>),
      videos |-> Items(<<Without(ApiVideoP1, {"statistics"})>>),
      channels |-> Items(<<ApiChannel1>>)],
     [search |-> Items(<<Found("p1")>>),
      videos |-> Items(<<[ApiVideoP1 EXCEPT !.snippet = [title |-> "ramen tour"]]>>),
      channels |-> Items(<<ApiChannel1>>)]}

\* datetime.now(timezone.utc).isoformat() at the moment of a crawl
YoutubeCrawlClock == {"2024-01-01T02:00:00+00:00"}
InstagramCrawlClock == {"2024-01-02T00:00:00+00:00"}

\* Answers of the Graph API to ig_hashtag_search
HashtagAnswers ==
    {[kind |-> "error"],
     [kind |-> "data", data |-> <<>>],
     [kind |-> "data", data |-> <<[id |-> "17843819167049166"]>>],
     [kind |-> "data", data |-> <<[name |-> "gourmet"]>>]}

\* The media object behind MediaP1, and others.
ApiMediaP1 ==
    [id |-> PyStr("p1"), permalink |-> PyStr("https://instagram.example/p1"),
     caption |-> PyStr("ramen in shibuya"), timestamp |-> PyStr("2024-01-01T00:00:00+0000"),
     like_count |-> PyInt(500), comments_count |-> PyInt(7), media_type |-> PyStr("IMAGE")]
ApiMediaP2 ==
    [ApiMediaP1 EXCEPT !.id = PyStr("p2"), !.caption = PyStr("ramen\nin shibuya"),
                       !.like_count = PyInt(900)]
ApiMediaOld == [ApiMediaP1 EXCEPT !.id = PyStr("p3"), !.timestamp = PyStr("2023-12-01T00:00:00+0000")]

Page(data, next) == [kind |-> "page", data |-> data, next |-> next]

\* Answers to the top_media requests of a crawl, page after page.
MediaPages ==
    {<<[kind |-> "error"]>>,
     <<Page(<<>>, FALSE)>>,
     <<Page(<<ApiMediaP1>>, FALSE)>>,
     <<Page(<<ApiMediaP1>>, TRUE), Page(<<ApiMediaP2>>, FALSE)>>,
     <<Page(<<ApiMediaP1>>, TRUE), [kind |-> "error"]>>,
     <<Page(<<ApiMediaP1, ApiMediaOld, ApiMediaP2>>, TRUE), Page(<<ApiMediaP2>>, FALSE)>>,
     <<Page(<<ApiMediaP1, Without(ApiMediaP2, {"timestamp"})>>, FALSE)>>,
     <<Page(<<Without(ApiMediaP1, {"like_count"}), ApiMediaP2>>, FALSE)>>,
     <<Page(<<[ApiMediaP1 EXCEPT !.like_count = PyNone], ApiMediaP2>>, FALSE)>>,
     <<Page(<<[ApiMediaP1 EXCEPT !.caption = PyNone], Without(ApiMediaP2, {"id"})>>, FALSE)>>}

(***************************************************************************)
(* State machine.  An invocation walks its batch one record at a time; a   *)
(* record is received (unmarshalled and validated), then the external call *)
(* is made (inference or geocoding), then the result is saved.  The steps  *)
(* of concurrent invocations interleave; the only state they share is the  *)
(* store, which each touches in its one put_item.                          *)
(***************************************************************************)
MaxBatch == 2
MaxSlots == 2
Slots == 1..MaxSlots

NoCur == [none |-> TRUE]
Idle ==
    [comp |-> "none", status |-> "idle", n |-> 0, idx |-> 0, saved |-> 0, code |-> 0,
     called |-> FALSE, phase |-> "receive", cur |-> NoCur]
GeminiIdle == [GeminiEnter(FALSE) EXCEPT !.pc = "idle"]
NoRecord == [slot |-> 0]
GeoIdle == [pc |-> "idle"]
\* The raw stores of the two crawlers, both empty.
NoRaw == [ig |-> EmptyMap, yt |-> EmptyMap]

\* An update that keeps the stored place of an item it finds under the key.
StorePutKeepingPlace(store, key, item) ==
    [k \in DOMAIN store \cup {key} |->
        IF k # key THEN store[k]
        ELSE IF key \notin DOMAIN store THEN item
        ELSE [f \in DOMAIN item |->
                IF f \in {"placeName", "address"} /\ f \in DOMAIN store[key]
                THEN store[key][f] ELSE item[f]]]

\* An update that appends: an item whose key is taken is stored beside the
\* item already there.
StorePutAppending(store, key, item) ==
    IF key \notin DOMAIN store THEN [k \in DOMAIN store \cup {key} |->
                                        IF k = key THEN item ELSE store[k]]
    ELSE [k \in DOMAIN store \cup {"p1 (2)"} |-> IF k = "p1 (2)" THEN item ELSE store[k]]

\* put_item replaces the whole item stored under the item's key.
StorePut(store, key, item) ==
    [k \in DOMAIN store \cup {key} |-> IF k = key THEN item ELSE store[k]]

\* History of a store: who put the item now under the key, and what it replaced.
SrcPut(src, key, item, slot) ==
    [k \in DOMAIN src \cup {key} |->
        IF k = key
        THEN [slot |-> slot, item |-> item,
              over |-> IF key \in DOMAIN src THEN <<src[key].slot, src[key].item>> ELSE <<>>]
        ELSE src[k]]

\* A handler is entered with a batch of n change records.  An extractor or
\* the geocoder without its clients returns status 500 at once; a geocoder
\* module that failed to load raises on every invocation.
Enter(cl, comp, n) ==
    IF comp = "geocoder" /\ ~cl.geo_loaded
    THEN [Idle EXCEPT !.comp = comp, !.status = "raised", !.n = n]
    ELSE IF ~ClientsReady(cl, comp)
    THEN [Idle EXCEPT !.comp = comp, !.status = "done", !.n = n, !.code = 500]
    ELSE IF n = 0
    THEN [Idle EXCEPT !.comp = comp, !.status = "done", !.code = 200]
    ELSE [Idle EXCEPT !.comp = comp, !.status = "running", !.n = n]

\* A loop that counts every record it has gone through, saved or not.
AdvanceCountingAll(v, path, saved) ==
    IF path = "raised"
    THEN [v EXCEPT !.status = "raised", !.phase = "receive", !.cur = NoCur]
    ELSE [v EXCEPT !.idx = @ + 1,
                   !.saved = IF v.comp # "ig_extractor" THEN @ + 1 ELSE @,
                   !.status = IF v.idx + 1 = v.n THEN "done" ELSE "running",
                   !.code = IF v.idx + 1 = v.n THEN 200 ELSE 0,
                   !.phase = "receive", !.cur = NoCur]

\* The invocation once the loop body has ended for the current record:
\* an exception that left the body ends the invocation, else the loop goes
\* on or the handler returns 200.  The Instagram extractor keeps no count.
Advance(v, path, saved) ==
    IF path = "raised"
    THEN [v EXCEPT !.status = "raised", !.phase = "receive", !.cur = NoCur]
    ELSE [v EXCEPT !.idx = @ + 1,
                   !.saved = IF saved /\ v.comp # "ig_extractor" THEN @ + 1 ELSE @,
                   !.status = IF v.idx + 1 = v.n THEN "done" ELSE "running",
                   !.code = IF v.idx + 1 = v.n THEN 200 ELSE 0,
                   !.phase = "receive", !.cur = NoCur]

Outcome(slot, rec, path, requests, ret, sv) ==
    [slot |-> slot, rec |-> rec, path |-> path, requests |-> requests, ret |-> ret,
     put |-> sv.put, saved |-> Truthy(sv.ret)]

Invoke(slot, comp, sizes) ==
    /\ inv[slot].status = "idle"
    /\ clients.comp = comp
    /\ \E n \in sizes : inv' = [inv EXCEPT ![slot] = Enter(clients, comp, n)]
    /\ UNCHANGED <<clients, streams, gq, raw, gx, semi, semiSrc, final, finalSrc, last>>

Receive(comp, rec) ==
    CASE comp = "ig_extractor" -> ReceiveIG(rec)
      [] comp = "yt_extractor" -> ReceiveYT(rec)
      [] comp = "geocoder" -> ReceiveGeo(rec)

\* The next record of the batch is taken up.
ReceiveStep(slot, records) ==
    /\ inv[slot].status = "running"
    /\ inv[slot].phase = "receive"
    /\ \E rec \in records :
          LET r == Receive(inv[slot].comp, rec)
          IN  IF r.path = "text"
              THEN /\ inv' = [inv EXCEPT ![slot].phase = "call",
                                         ![slot].cur = [rec |-> rec, data |-> r.data]]
                   /\ last' = NoRecord
              ELSE /\ inv' = [inv EXCEPT ![slot] = Advance(@, r.path, FALSE)]
                   /\ last' = Outcome(slot, rec, r.path, 0, PyNone, NoPut)
    /\ UNCHANGED <<clients, streams, gq, raw, gx, semi, semiSrc, final, finalSrc>>

\* The extractor's inference call for the current record, lines 178-185
\* (Instagram) and 156-158 (YouTube): a falsy result ends the record.
ExtractCall(slot, scripts) ==
    /\ inv[slot].status = "running"
    /\ inv[slot].phase = "call"
    /\ inv[slot].comp \in {"ig_extractor", "yt_extractor"}
    /\ \E script \in scripts :
          LET client == IF inv[slot].comp = "ig_extractor" THEN clients.ig_gemini
                        ELSE clients.yt_gemini
              g == call_gemini_for_extraction(client, script)
              asked == [inv[slot] EXCEPT !.called = @ \/ g.requests > 0]
          IN  IF Truthy(g.ret)
              THEN /\ inv' = [inv EXCEPT ![slot] =
                                [asked EXCEPT !.phase = "save",
                                              !.cur = [rec |-> @.rec, data |-> @.data,
                                                       ret |-> g.ret, requests |-> g.requests]]]
                   /\ last' = last
              ELSE /\ inv' = [inv EXCEPT ![slot] = Advance(asked, "failed", FALSE)]
                   /\ last' = Outcome(slot, inv[slot].cur.rec, "failed", g.requests, g.ret, NoPut)
    /\ UNCHANGED <<clients, streams, gq, raw, gx, semi, semiSrc, final, finalSrc>>

\* The extractor's save of the current record.
ExtractSave(slot) ==
    /\ inv[slot].status = "running"
    /\ inv[slot].phase = "save"
    /\ inv[slot].comp \in {"ig_extractor", "yt_extractor"}
    /\ \E now \in Clock, dbOk \in BOOLEAN :
          LET cur == inv[slot].cur
              sv == IF inv[slot].comp = "ig_extractor"
                    THEN save_to_target_db(clients, cur.data, cur.ret, now, dbOk)
                    ELSE save_to_semifinal_db(clients, cur.data, cur.ret, dbOk)
              wrote == sv.put # <<>>
              item == sv.put[1]
          IN  /\ inv' = [inv EXCEPT ![slot] = Advance(@, "saved", Truthy(sv.ret))]
              /\ semi' = IF wrote THEN StorePut(semi, item.postId.S, item) ELSE semi
              /\ semiSrc' = IF wrote THEN SrcPut(semiSrc, item.postId.S, item, slot)
                            ELSE semiSrc
              /\ last' = Outcome(slot, cur.rec, IF wrote THEN "upserted" ELSE "unsaved",
                                 cur.requests, cur.ret, sv)
    /\ UNCHANGED <<clients, streams, gq, raw, gx, final, finalSrc>>

\* The geocoder's lookup for the current record, lines 129-137.
GeocodeCall(slot, answers) ==
    /\ inv[slot].status = "running"
    /\ inv[slot].phase = "call"
    /\ inv[slot].comp = "geocoder"
    /\ \E answer \in answers :
          LET g == geocode_address(clients, inv[slot].cur.data.address, answer)
              asked == [inv[slot] EXCEPT !.called = @ \/ g.requests > 0]
          IN  IF Truthy(g.ret)
              THEN /\ inv' = [inv EXCEPT ![slot] =
                                [asked EXCEPT !.phase = "save",
                                              !.cur = [rec |-> @.rec, data |-> @.data,
                                                       ret |-> g.ret, requests |-> g.requests]]]
                   /\ last' = last
              ELSE /\ inv' = [inv EXCEPT ![slot] = Advance(asked, "failed", FALSE)]
                   /\ last' = Outcome(slot, inv[slot].cur.rec, "failed", g.requests, g.ret, NoPut)
    /\ UNCHANGED <<clients, streams, gq, raw, gx, semi, semiSrc, final, finalSrc>>

\* The geocoder's save of the current record, lines 133-135.
GeocodeSave(slot) ==
    /\ inv[slot].status = "running"
    /\ inv[slot].phase = "save"
    /\ inv[slot].comp = "geocoder"
    /\ \E dbOk \in BOOLEAN :
          LET cur == inv[slot].cur
              sv == save_to_final_db(clients, cur.data, cur.ret, dbOk)
              wrote == sv.put # <<>>
              item == sv.put[1]
          IN  /\ inv' = [inv EXCEPT ![slot] = Advance(@, "saved", Truthy(sv.ret))]
              /\ final' = IF wrote THEN StorePut(final, item.postId.S, item) ELSE final
              /\ finalSrc' = IF wrote THEN SrcPut(finalSrc, item.postId.S, item, slot)
                             ELSE finalSrc
              /\ last' = Outcome(slot, cur.rec, IF wrote THEN "upserted" ELSE "unsaved",
                                 cur.requests, cur.ret, sv)
    /\ UNCHANGED <<clients, streams, gq, raw, gx, semi, semiSrc>>

\* The crawler's loop over its list once one item was saved or not.
AdvanceCrawl(v, saved) ==
    [v EXCEPT !.idx = @ + 1,
              !.saved = IF saved THEN @ + 1 ELSE @,
              !.status = IF v.idx + 1 = v.n THEN "done" ELSE "running",
              !.code = IF v.idx + 1 = v.n THEN 200 ELSE 0,
              !.cur = IF v.idx + 1 = v.n THEN NoCur ELSE @]

\* YoutubeCrawlFunction.lambda_handler up to its loop, lines 149-153: an
\* empty list ends the invocation with status 200.
CrawlYT(slot, apis) ==
    /\ inv[slot].status = "idle"
    /\ clients.comp = "yt_crawler"
    /\ \E api \in apis :
          LET g == get_youtube_videos(clients, api)
              v == [Idle EXCEPT !.comp = "yt_crawler", !.called = g.requests > 0]
          IN  inv' = [inv EXCEPT ![slot] =
                        IF g.ret = <<>> THEN [v EXCEPT !.status = "done", !.code = 200]
                        ELSE [v EXCEPT !.status = "running", !.n = Len(g.ret),
                                       !.phase = "save", !.cur = [items |-> g.ret]]]
    /\ UNCHANGED <<clients, streams, gx, gq, raw, semi, semiSrc, final, finalSrc, last>>

\* One pass of the loop, lines 154-156.
SaveYT(slot) ==
    /\ inv[slot].status = "running"
    /\ inv[slot].comp = "yt_crawler"
    /\ \E now \in YoutubeCrawlClock, dbOk \in BOOLEAN :
          LET v == inv[slot]
              video == v.cur.items[v.idx + 1]
              sv == save_to_youtube_db(clients, video, now, dbOk)
              wrote == sv.put # <<>>
              item == sv.put[1]
          IN  IF IsExc(sv.ret)
              THEN /\ inv' = [inv EXCEPT ![slot].status = "raised", ![slot].cur = NoCur]
                   /\ raw' = raw
                   /\ last' = Outcome(slot, video, "raised", 0, PyNone, NoPut)
              ELSE /\ inv' = [inv EXCEPT ![slot] = AdvanceCrawl(v, Truthy(sv.ret))]
                   /\ raw' = IF wrote THEN [raw EXCEPT !.yt = StorePut(@, item.videoId.S, item)]
                             ELSE raw
                   /\ last' = Outcome(slot, video, IF wrote THEN "upserted" ELSE "unsaved",
                                      0, PyNone, sv)
    /\ UNCHANGED <<clients, streams, gx, gq, semi, semiSrc, final, finalSrc>>

\* InstagramCrawlFunction.lambda_handler up to its loop, lines 158-183.
CrawlIG(slot, answers, scripts) ==
    /\ inv[slot].status = "idle"
    /\ clients.comp = "ig_crawler"
    /\ \E answer \in answers, pages \in scripts, now \in InstagramCrawlClock :
          LET h == get_hashtag_id(clients, answer)
              m == get_top_hashtag_media(h.ret, MAX_COUNT, MAX_DAYS, now, pages)
              v == [Idle EXCEPT !.comp = "ig_crawler"]
              asked(r) == [v EXCEPT !.called = r > 0]
          IN  inv' = [inv EXCEPT ![slot] =
                        IF IsExc(h.ret) THEN [asked(h.requests) EXCEPT !.status = "raised"]
                        ELSE IF ~Truthy(h.ret) /\ (~clients.igc_token \/ ~clients.igc_account)
                        THEN [asked(h.requests) EXCEPT !.status = "done", !.code = 400]
                        ELSE IF ~Truthy(h.ret)
                        THEN [asked(h.requests) EXCEPT !.status = "done", !.code = 500]
                        ELSE IF m.raised
                        THEN [asked(h.requests + m.requests) EXCEPT !.status = "raised"]
                        ELSE IF m.ret = <<>>
                        THEN [asked(h.requests + m.requests) EXCEPT
                                !.status = "done", !.code = 200]
                        ELSE [asked(h.requests + m.requests) EXCEPT
                                !.status = "running", !.n = Len(m.ret), !.phase = "save",
                                !.cur = [items |-> media_list_sorted(m.ret)]]]
    /\ UNCHANGED <<clients, streams, gx, gq, raw, semi, semiSrc, final, finalSrc, last>>

\* One pass of the loop, lines 184-186.
SaveIG(slot) ==
    /\ inv[slot].status = "running"
    /\ inv[slot].comp = "ig_crawler"
    /\ \E now \in InstagramCrawlClock, dbOk \in BOOLEAN :
          LET v == inv[slot]
              media == v.cur.items[v.idx + 1]
              sv == save_to_dynamodb(clients, media, now, dbOk)
              wrote == sv.put # <<>>
              item == sv.put[1]
          IN  /\ inv' = [inv EXCEPT ![slot] = AdvanceCrawl(v, Truthy(sv.ret))]
              /\ raw' = IF wrote THEN [raw EXCEPT !.ig = StorePut(@, item.media_id.S, item)]
                        ELSE raw
              /\ last' = Outcome(slot, media, IF wrote THEN "upserted" ELSE "unsaved",
                                 0, PyNone, sv)
    /\ UNCHANGED <<clients, streams, gx, gq, semi, semiSrc, final, finalSrc>>

\* geocode_address called on its own with an address of any kind.
Addresses ==
    {PyStr("Tokyo"), PyStr("Osaka"), PyStr(""), PyStr("N/A"), PyStr("null"), PyNone}

GeocodeDirect(addresses, answers) ==
    /\ gq.pc = "idle"
    /\ inv[1].status = "idle"
    /\ clients.geo_loaded
    /\ \E address \in addresses, answer \in answers :
          gq' = [pc |-> "returned", address |-> address, answer |-> answer,
                 res |-> geocode_address(clients, address, answer)]
    /\ UNCHANGED <<clients, streams, gx, inv, raw, semi, semiSrc, final, finalSrc, last>>

\* One request of a running call_gemini_for_extraction.
RetryStep ==
    /\ gx.pc = "loop"
    /\ \E o \in Outcomes : gx' = GeminiIteration(gx, o)
    /\ UNCHANGED <<clients, streams, gq, raw, inv, semi, semiSrc, final, finalSrc, last>>

Quiet ==
    /\ inv = [s \in Slots |-> Idle]
    \* the streams of the two raw stores and of the intermediate store,
    \* and the number of items the crawlers have persisted
    /\ streams = [ig |-> <<>>, yt |-> <<>>, semi |-> <<>>, persisted |-> 0]
    /\ gq = GeoIdle
    /\ raw = NoRaw
    /\ semi = EmptyMap /\ semiSrc = EmptyMap
    /\ final = EmptyMap /\ finalSrc = EmptyMap
    /\ last = NoRecord

(***************************************************************************)
(* Specifications                                                          *)
(***************************************************************************)
\* A call of call_gemini_for_extraction, with or without a client.
InitRetry ==
    /\ clients = NoClients
    /\ gx \in {GeminiEnter(c) : c \in BOOLEAN}
    /\ Quiet

SpecRetry == InitRetry /\ [][RetryStep]_vars

\* One extractor, loaded under some environment, handling a batch of at
\* most one record drawn from all the records and answers of the model.
InitExtract ==
    /\ \E comp \in {"ig_extractor", "yt_extractor"}, env \in Envs, ctor \in Ctors,
          py311 \in BOOLEAN : clients = InitClients(comp, env, ctor, py311)
    /\ gx = GeminiIdle
    /\ Quiet

NextExtract ==
    \/ Invoke(1, "ig_extractor", 0..1)
    \/ Invoke(1, "yt_extractor", 0..1)
    \/ ReceiveStep(1, IF inv[1].comp = "ig_extractor" THEN InstagramRecords
                       ELSE YoutubeRecords)
    \/ ExtractCall(1, Scripts)
    \/ ExtractSave(1)

SpecExtract == InitExtract /\ [][NextExtract]_vars

\* The geocoder, loaded under some environment, handling one batch, or its
\* geocode_address called once.
InitGeo ==
    /\ \E env \in Envs, ctor \in Ctors : clients = InitClients("geocoder", env, ctor, TRUE)
    /\ gx = GeminiIdle
    /\ Quiet

NextGeo ==
    \/ (gq.pc = "idle" /\ Invoke(1, "geocoder", 0..MaxBatch))
    \/ GeocodeDirect(Addresses, GeoAnswers)
    \/ ReceiveStep(1, SemiRecords)
    \/ GeocodeCall(1, GeoAnswers)
    \/ GeocodeSave(1)

SpecGeo == InitGeo /\ [][NextGeo]_vars

\* One extractor or the geocoder handling a batch of up to MaxBatch records
\* drawn from a few: two versions of p1, p2, a REMOVE, a record without a
\* new image, and for Instagram a count with a decimal point.
BatchRecords(comp) ==
    CASE comp = "ig_extractor" ->
            {Insert(MediaP1),
             Modify([MediaP1 EXCEPT !.caption = Str("cafe in umeda"),
                                    !.permalink = Str("https://instagram.example/p1b"),
                                    !.timestamp = Str("2024-01-01T00:00:00Z"),
                                    !.like_count = Txt(<<"2", "5", "0">>)]),
             Insert(Without(MediaP1, {"caption"})),
             Insert([MediaP1 EXCEPT !.like_count = Txt(<<"1", ".", "5">>)]),
             Remove("media_id", "p1"), KeysOnly("media_id", "p1")}
      [] comp = "yt_extractor" ->
            {Insert(VideoP1),
             Modify([VideoP1 EXCEPT !.title = Str("cafe tour"), !.views = Txt(<<"3">>),
                                    !.crawled_at = Str("2024-01-01T00:05:00+00:00")]),
             Insert(Without(VideoP1, {"crawled_at"})),
             Remove("videoId", "p1"), KeysOnly("videoId", "p1")}
      [] OTHER ->
            {Insert(SemiP1),
             Modify([SemiP1 EXCEPT !.placeName = Str("Cafe B"), !.address = Str("Osaka"),
                                   !.title = Str("cafe in umeda"), !.buzz = Txt(<<"2">>)]),
             Insert([SemiP1 EXCEPT !.address = Str("N/A")]),
             Remove("postId", "p1"), KeysOnly("postId", "p1")}

BatchScripts ==
    {<<Answer("{\"placeName\": \"Ramen A\", \"address\": \"Tokyo\"}")>>,
     <<Http429, Answer("{\"placeName\": null, \"address\": null}")>>,
     <<Http500>>}

BatchAnswers ==
    {[kind |-> "results", results |-> <<Shibuya>>],
     [kind |-> "results", results |-> <<>>],
     [kind |-> "ClientError"]}

InitBatch ==
    /\ \E comp \in {"ig_extractor", "yt_extractor", "geocoder"}, env \in Envs, ctor \in Ctors :
          clients = InitClients(comp, env, ctor, TRUE)
    /\ gx = GeminiIdle
    /\ Quiet

NextBatch ==
    \/ \E comp \in {"ig_extractor", "yt_extractor", "geocoder"} : Invoke(1, comp, 0..MaxBatch)
    \/ ReceiveStep(1, BatchRecords(inv[1].comp))
    \/ ExtractCall(1, BatchScripts)
    \/ ExtractSave(1)
    \/ GeocodeCall(1, BatchAnswers)
    \/ GeocodeSave(1)

SpecBatch == InitBatch /\ [][NextBatch]_vars

\* MaxSlots concurrent invocations of one stage, each handling one record.
NextConc ==
    \E slot \in Slots :
        \/ \E comp \in {"ig_extractor", "yt_extractor", "geocoder"} : Invoke(slot, comp, {1})
        \/ ReceiveStep(slot, BatchRecords(inv[slot].comp))
        \/ ExtractCall(slot, BatchScripts)
        \/ ExtractSave(slot)
        \/ GeocodeCall(slot, BatchAnswers)
        \/ GeocodeSave(slot)

SpecConc == InitBatch /\ [][NextConc]_vars

\* One invocation of any of the five components, loaded under some
\* environment.
InitConfig ==
    /\ \E comp \in Components, env \in Envs, ctor \in Ctors :
          clients = InitClients(comp, env, ctor, TRUE)
    /\ gx = GeminiIdle
    /\ Quiet

NextConfig ==
    \/ \E comp \in {"ig_extractor", "yt_extractor", "geocoder"} : Invoke(1, comp, 0..1)
    \/ ReceiveStep(1, BatchRecords(inv[1].comp))
    \/ ExtractCall(1, BatchScripts)
    \/ ExtractSave(1)
    \/ GeocodeCall(1, BatchAnswers)
    \/ GeocodeSave(1)
    \/ CrawlYT(1, YoutubeApis)
    \/ SaveYT(1)
    \/ CrawlIG(1, HashtagAnswers, MediaPages)
    \/ SaveIG(1)

SpecConfig == InitConfig /\ [][NextConfig]_vars

\* The loop of a crawler's handler, lines 153-154 (YouTube) and 183-184
\* (Instagram), entered with a list of items.
EnterLoop(slot, comp, lists) ==
    /\ inv[slot].status = "idle"
    /\ clients.comp = comp
    /\ \E items \in lists :
          inv' = [inv EXCEPT ![slot] =
                    [Idle EXCEPT !.comp = comp, !.status = "running", !.n = Len(items),
                                 !.phase = "save", !.cur = [items |-> items]]]
    /\ UNCHANGED <<clients, streams, gx, gq, raw, semi, semiSrc, final, finalSrc, last>>

\* The largest max_count below MAX_COUNT that get_top_hashtag_media is
\* called with on its own.
MaxFetch == 2

\* Lines 165-186 of the Instagram crawler's handler with get_top_hashtag_media
\* called for a known hashtag id and any max_count: the list it returns is
\* kept beside the pages it was read from, then sorted and saved.
FetchIG(slot, counts, scripts) ==
    /\ inv[slot].status = "idle"
    /\ clients.comp = "ig_crawler"
    /\ \E max_count \in counts, pages \in scripts, now \in InstagramCrawlClock :
          LET m == get_top_hashtag_media(PyStr("17843819167049166"), max_count, MAX_DAYS,
                                         now, pages)
              v == [Idle EXCEPT !.comp = "ig_crawler", !.called = m.requests > 0,
                                !.cur = [items |-> media_list_sorted(m.ret), fetched |-> m,
                                         pages |-> pages, max_count |-> max_count, now |-> now]]
          IN  inv' = [inv EXCEPT ![slot] =
                        IF m.raised THEN [v EXCEPT !.status = "raised"]
                        ELSE IF m.ret = <<>> THEN [v EXCEPT !.status = "done", !.code = 200]
                        ELSE [v EXCEPT !.status = "running", !.n = Len(m.ret),
                                       !.phase = "save"]]
    /\ UNCHANGED <<clients, streams, gx, gq, raw, semi, semiSrc, final, finalSrc, last>>

\* The save loops of the two crawlers over lists of one or two items of
\* any shape: whole items, and items lacking a part.
NextSave ==
    LET video == Extend(ApiVideoP1, "subscriber_count", PyInt(100))
        videos == {video, Extend(ApiVideoP2, "subscriber_count", PyInt(0)),
                   Without(video, {"id"}), Without(video, {"snippet"}),
                   Without(video, {"statistics"})}
        media == {ApiMediaP1, ApiMediaP2, Without(ApiMediaP1, {"id"}),
                  [ApiMediaP1 EXCEPT !.like_count = PyNone]}
        lists(S) == {<<a>> : a \in S} \cup {<<a, b>> : a, b \in S}
    IN  \/ EnterLoop(1, "yt_crawler", lists(videos))
        \/ SaveYT(1)
        \/ EnterLoop(1, "ig_crawler", lists(media))
        \/ SaveIG(1)
        \/ FetchIG(1, 1..MaxFetch \cup {MAX_COUNT}, MediaPages)

SpecSave == InitConfig /\ [][NextSave]_vars

(***************************************************************************)
(* The pipeline: every component loaded under a complete environment.  A   *)
(* crawler persists items; each store's stream hands its change records,   *)
(* one per invocation, to the handler the store triggers.  The inference   *)
(* service answers with an object that names an address, the place index   *)
(* with a point, and every put_item succeeds.                              *)
(***************************************************************************)
MaxPersisted == 2

AllClients(py311) ==
    LET env == [set |-> EnvNames, empty |-> {}]
        part(c) == InitClients(c, env, "none", py311)
    IN  [f \in DOMAIN NoClients |->
            IF f = "comp" THEN "pipeline"
            ELSE IF f = "py311" THEN py311
            ELSE \E c \in Components : part(c)[f]]

\* The change record a put leaves on the store's stream: INSERT for a new
\* key, MODIFY for a changed item, none for an item put again unchanged.
Emit(stream, before, key, item) ==
    IF key \notin DOMAIN before THEN Append(stream, Insert(item))
    ELSE IF before[key] = item THEN stream
    ELSE Append(stream, Modify(item))

\* What the pipeline is fed: media objects and videos as the crawlers hold
\* them before persisting, answers of the inference service, answers of
\* the place index.
PipeInputs ==
    [media |-> {ApiMediaP1, ApiMediaP2, Without(ApiMediaP1, {"permalink"}),
                [ApiMediaP2 EXCEPT !.caption = PyStr("")]},
     videos |-> {Extend(ApiVideoP1, "subscriber_count", PyInt(100)),
                 Extend(ApiVideoP2, "subscriber_count", PyInt(0))},
     scripts |-> {<<Answer("{\"placeName\": \"Ramen A\", \"address\": \"Tokyo\"}")>>,
                  <<Http429, Answer("{\"placeName\": \"Cafe B\", \"address\": \"Osaka\"}")>>},
     answers |-> {[kind |-> "results", results |-> <<Shibuya>>],
                  [kind |-> "results",
                   results |-> <<[wellFormed |-> TRUE, point |-> <<PyInt(140), PyInt(36)>>]>>]}]

\* One pass of a crawler's loop on a store that accepts the write:
\* InstagramCrawlFunction lines 184-186, YoutubeCrawlFunction lines 154-156.
Persist(p) ==
    /\ streams.persisted < MaxPersisted
    /\ \E sv \in (IF p = "ig"
                  THEN {save_to_dynamodb(clients, m, now, TRUE) :
                            m \in PipeInputs.media, now \in InstagramCrawlClock}
                  ELSE {save_to_youtube_db(clients, v, now, TRUE) :
                            v \in PipeInputs.videos, now \in YoutubeCrawlClock}) :
          LET wrote == sv.put # <<>>
              item == sv.put[1]
              key == IF p = "ig" THEN item.media_id.S ELSE item.videoId.S
          IN  /\ raw' = IF wrote THEN [raw EXCEPT ![p] = StorePut(@, key, item)] ELSE raw
              /\ streams' = [streams EXCEPT
                    ![p] = IF wrote THEN Emit(@, raw[p], key, item) ELSE @,
                    !.persisted = @ + 1]
    /\ UNCHANGED <<clients, gx, gq, inv, semi, semiSrc, final, finalSrc, last>>

\* An extractor's lambda_handler invoked with the oldest change record of
\* its raw store.  An invocation that raises is not counted as delivered.
PipeExtract(p) ==
    /\ streams[p] # <<>>
    /\ \E script \in PipeInputs.scripts, now \in Clock,
          comp \in {IF p = "ig" THEN "ig_extractor" ELSE "yt_extractor"},
          rec \in {Head(streams[p])} :
       \E r \in {Receive(comp, rec)} :
          /\ r.path # "raised"
          /\ \E g \in {IF ClientsReady(clients, comp) /\ r.path = "text"
                       THEN call_gemini_for_extraction(
                              IF p = "ig" THEN clients.ig_gemini ELSE clients.yt_gemini,
                              script)
                       ELSE GeminiEnter(FALSE)} :
             \E sv \in {IF ~Truthy(g.ret) THEN NoPut
                        ELSE IF p = "ig"
                        THEN save_to_target_db(clients, r.data, g.ret, now, TRUE)
                        ELSE save_to_semifinal_db(clients, r.data, g.ret, TRUE)} :
                /\ semi' = IF sv.put # <<>>
                           THEN StorePut(semi, sv.put[1].postId.S, sv.put[1]) ELSE semi
                /\ semiSrc' = IF sv.put # <<>>
                              THEN SrcPut(semiSrc, sv.put[1].postId.S, sv.put[1], 1)
                              ELSE semiSrc
                /\ streams' = [streams EXCEPT
                      ![p] = Tail(@),
                      !.semi = IF sv.put # <<>>
                               THEN Emit(@, semi, sv.put[1].postId.S, sv.put[1]) ELSE @]
                /\ last' = Outcome(1, rec, IF sv.put # <<>> THEN "upserted" ELSE "unsaved",
                                   g.requests, g.ret, sv)
    /\ UNCHANGED <<clients, gx, gq, inv, raw, final, finalSrc>>

\* The geocoder's lambda_handler invoked with the oldest change record of
\* the intermediate store.
PipeGeocode ==
    /\ streams.semi # <<>>
    /\ \E answer \in PipeInputs.answers, rec \in {Head(streams.semi)} :
       \E r \in {Receive("geocoder", rec)} :
          /\ r.path # "raised"
          /\ \E g \in {IF ClientsReady(clients, "geocoder") /\ r.path = "text"
                       THEN geocode_address(clients, r.data.address, answer)
                       ELSE [ret |-> PyNone, requests |-> 0]} :
             \E sv \in {IF Truthy(g.ret) THEN save_to_final_db(clients, r.data, g.ret, TRUE)
                        ELSE NoPut} :
                /\ final' = IF sv.put # <<>>
                            THEN StorePut(final, sv.put[1].postId.S, sv.put[1]) ELSE final
                /\ finalSrc' = IF sv.put # <<>>
                               THEN SrcPut(finalSrc, sv.put[1].postId.S, sv.put[1], 1)
                               ELSE finalSrc
                /\ streams' = [streams EXCEPT !.semi = Tail(@)]
                /\ last' = Outcome(1, rec, IF sv.put # <<>> THEN "upserted" ELSE "unsaved",
                                   g.requests, g.ret, sv)
    /\ UNCHANGED <<clients, gx, gq, inv, raw, semi, semiSrc>>

InitPipe ==
    /\ \E py311 \in BOOLEAN : clients = AllClients(py311)
    /\ gx = GeminiIdle
    /\ Quiet

NextPipe ==
    \/ Persist("ig")
    \/ Persist("yt")
    \/ PipeExtract("ig")
    \/ PipeExtract("yt")
    \/ PipeGeocode

\* Every change record on a stream is delivered in the end.
SpecPipe ==
    /\ InitPipe
    /\ [][NextPipe]_vars
    /\ WF_vars(PipeExtract("ig"))
    /\ WF_vars(PipeExtract("yt"))
    /\ WF_vars(PipeGeocode)

(***************************************************************************)
(* Properties of the retry loop, under SpecRetry                           *)
(***************************************************************************)
RateLimited(o) == o.kind = "exc" /\ IsRateLimit(o)

\* C1: one call of call_gemini_for_extraction issues at most five requests
\* to the inference service, and a call whose five requests were all
\* answered by a rate-limit signal has returned null.
C1_AtMostFiveRequests ==
    /\ gx.requests <= MAX_RETRIES
    /\ Len(gx.hist) = gx.requests
    /\ (/\ gx.requests = MAX_RETRIES
        /\ \A i \in 1..MAX_RETRIES : RateLimited(gx.hist[i]))
       => (gx.pc = "returned" /\ gx.ret = PyNone)

C1_FiveRateLimits ==
    /\ gx.pc = "returned"
    /\ gx.requests = 5
    /\ \A i \in 1..5 : RateLimited(gx.hist[i])
    /\ gx.ret = PyNone

\* C2: a request answered by a JSON object ends the call with that object
\* as its result, and a request answered by an error that is no rate-limit
\* signal ends the call with null; in both cases the request is the last
\* one of the call, so that k rate limits followed by an answer make
\* exactly k + 1 requests and an error at request j makes exactly j.
C2_AnswerOrErrorEndsCall ==
    \A i \in 1..Len(gx.hist) :
        LET o == gx.hist[i]
        IN  /\ (o.kind = "text" /\ o.text \in ObjectTexts)
                => /\ gx.pc = "returned"
                   /\ gx.requests = i
                   /\ \A j \in 1..(i - 1) : RateLimited(gx.hist[j])
                   /\ IsTag(gx.ret, "dict")
                   /\ gx.ret = JsonLoads(Strip(o.text))
            /\ (o.kind = "exc" /\ ~IsRateLimit(o))
                => /\ gx.pc = "returned"
                   /\ gx.requests = i
                   /\ \A j \in 1..(i - 1) : RateLimited(gx.hist[j])
                   /\ gx.ret = PyNone

C2_FourRateLimitsThenAnswer ==
    /\ gx.pc = "returned"
    /\ gx.requests = 5
    /\ \A i \in 1..4 : RateLimited(gx.hist[i])
    /\ gx.hist[5] = Answer("{\"placeName\": \"Cafe B\", \"address\": \"Osaka\"}")
    /\ gx.ret = PyDict([placeName |-> PyStr("Cafe B"), address |-> PyStr("Osaka")])

(***************************************************************************)
(* Properties of the extractors, under SpecExtract                         *)
(***************************************************************************)
ScoreTexts == {<<"1">>, <<"2">>, <<"3">>, <<"4">>, <<"5">>}

C4_PlaceFieldsAreStrings ==
    /\ \A k \in DOMAIN semi :
          \A f \in {"placeName", "address"} :
              f \in DOMAIN semi[k] /\ DOMAIN semi[k][f] = {"S"}
    /\ (last.slot # 0 /\ last.path = "upserted")
          => \A f \in {"placeName", "address"} :
                (f \notin DOMAIN last.ret.dict \/ last.ret.dict[f] = PyNone)
                    => last.put[1][f] = Str("N/A")

\* An answer with both fields null was written, and the item holds NULL.
C4_NullWritten ==
    /\ last.slot # 0
    /\ last.path = "upserted"
    /\ last.ret = PyDict([placeName |-> PyNone, address |-> PyNone])
    /\ last.put[1].placeName = [NULL |-> TRUE]
    /\ last.put[1].address = [NULL |-> TRUE]
    /\ semi[last.put[1].postId.S] = last.put[1]

(***************************************************************************)
(* Properties of the geocoder, under SpecGeo                               *)
(***************************************************************************)
\* The text of a number-tagged attribute reads as a number.
NumericAttr(v) == DOMAIN v = {"N"} /\ ~IsExc(Number("geo", v.N))

\* C5: every item of the final store carries lat and lng as numbers; an
\* item is put only for a record whose geocode request returned a result;
\* a record whose geocoding gave null leaves the final store as it was.
C5_FinalOnlyAfterGeocode ==
    /\ \A k \in DOMAIN final :
          /\ {"lat", "lng"} \subseteq DOMAIN final[k]
          /\ NumericAttr(final[k].lat)
          /\ NumericAttr(final[k].lng)
          /\ k \in DOMAIN finalSrc
    /\ (last.slot # 0 /\ last.put # <<>>)
          => /\ last.requests = 1
             /\ IsTag(last.ret, "dict")
             /\ {"lat", "lng"} \subseteq DOMAIN last.ret.dict
             /\ final[last.put[1].postId.S] = last.put[1]
    /\ (last.slot # 0 /\ ~Truthy(last.ret)) => last.put = <<>>
    /\ (final # EmptyMap) => inv[1].called

C5_GeocodedRecordWritten ==
    /\ last.slot # 0
    /\ last.path = "upserted"
    /\ last.requests = 1
    /\ "p1" \in DOMAIN final
    /\ final["p1"].lat = Txt(<<"3", "5", ".", "6", "5">>)
    /\ final["p1"].lng = Txt(<<"1", "3", "9", ".", "7">>)

\* The address of a change record's new image is none at all: absent, NULL,
\* empty, or one of the sentinels.
NoAddressIn(image) ==
    \/ "address" \notin DOMAIN image
    \/ "NULL" \in DOMAIN image.address
    \/ ("S" \in DOMAIN image.address /\ image.address.S \in {"", "N/A", "null"})

\* C6: for an address that is empty, absent, "N/A" or "null",
\* geocode_address sends no request and returns null, and the handler sends
\* no request for a record with such an address.
C6_NoRequestWithoutAddress ==
    /\ (/\ gq.pc = "returned"
        /\ gq.address \in {PyStr(""), PyNone, PyStr("N/A"), PyStr("null")})
          => gq.res = [ret |-> PyNone, requests |-> 0]
    /\ (/\ last.slot # 0
        /\ "NewImage" \in DOMAIN last.rec.dynamodb
        /\ NoAddressIn(last.rec.dynamodb.NewImage))
          => (last.requests = 0 /\ last.put = <<>>)

\* A working geocoder was asked for "null" while the provider had a result.
C6_SentinelShortCircuits ==
    /\ gq.pc = "returned"
    /\ gq.address = PyStr("null")
    /\ clients.geo_loc /\ clients.geo_index
    /\ gq.answer = [kind |-> "results", results |-> <<Shibuya>>]
    /\ gq.res.requests = 0
    /\ gq.res.ret = PyNone

\* str() of a coordinate as the provider gave it.
CoordText(v) == IF IsTag(v, "num") THEN v.num ELSE IntText(v.int)

\* C7: for a provider response whose first result has the point [x, y],
\* geocode_address returns lng = x and lat = y, and the item put for the
\* record stores lat = y and lng = x.
C7_PointOrderKept ==
    /\ (/\ gq.pc = "returned"
        /\ gq.res.requests = 1
        /\ gq.answer.kind = "results"
        /\ Len(gq.answer.results) > 0
        /\ gq.answer.results[1].wellFormed)
          => gq.res.ret = PyDict([lng |-> gq.answer.results[1].point[1],
                                  lat |-> gq.answer.results[1].point[2]])
    /\ (last.slot # 0 /\ last.put # <<>>)
          => /\ last.put[1].lng = Txt(CoordText(last.ret.dict.lng))
             /\ last.put[1].lat = Txt(CoordText(last.ret.dict.lat))

C7_ShibuyaStored ==
    /\ last.slot # 0
    /\ last.path = "upserted"
    /\ last.ret = PyDict([lng |-> PyNum(<<"1", "3", "9", ".", "7">>),
                          lat |-> PyNum(<<"3", "5", ".", "6", "5">>)])
    /\ last.put[1].lng = Txt(<<"1", "3", "9", ".", "7">>)
    /\ last.put[1].lat = Txt(<<"3", "5", ".", "6", "5">>)

(***************************************************************************)
(* Properties of a batch, under SpecBatch                                  *)
(***************************************************************************)
\* C8: no error raised while an extractor or the geocoder handles a record
\* keeps the later records of the batch from being handled: an invocation
\* that has ended found its clients missing on entry, or went through all
\* its records, or was ended by its last record.
C8_EveryRecordHandled ==
    \A s \in Slots :
        inv[s].status \in {"done", "raised"}
            => \/ ~ClientsReady(clients, inv[s].comp)
               \/ inv[s].idx = inv[s].n
               \/ inv[s].idx + 1 = inv[s].n

\* The first of two records raised out of the handler, the second was
\* never taken up.
C8_BatchAborted ==
    /\ ClientsReady(clients, inv[1].comp)
    /\ inv[1].status = "raised"
    /\ inv[1].n = 2
    /\ inv[1].idx = 0
    /\ last.slot = 1
    /\ last.path = "raised"

(***************************************************************************)
(* Properties of concurrent invocations, under SpecConc                    *)
(***************************************************************************)
\* A step changes a store at most under one key, and what is then stored
\* under that key is the whole item the step's invocation has put.
WholePut(before, after, step) ==
    \A k \in DOMAIN before \cup DOMAIN after :
        \/ (k \in DOMAIN before /\ k \in DOMAIN after /\ after[k] = before[k])
        \/ (/\ k \in DOMAIN after
            /\ step.slot # 0
            /\ step.put = <<after[k]>>
            /\ after[k].postId.S = k)

\* C10: under every interleaving of the concurrent invocations of a stage,
\* each write replaces the item under its key by the complete item of the
\* writing invocation and leaves the items under other keys alone, so that
\* the item stored under a key is always the item of the last write to it.
C10_LastWriteWins ==
    /\ [](/\ DOMAIN semi = DOMAIN semiSrc
          /\ \A k \in DOMAIN semi : semi[k] = semiSrc[k].item
          /\ DOMAIN final = DOMAIN finalSrc
          /\ \A k \in DOMAIN final : final[k] = finalSrc[k].item)
    /\ [][WholePut(semi, semi', last') /\ WholePut(final, final', last')]_vars

\* Two invocations wrote different items under p1, one after the other,
\* and both have ended.
C10_Overwritten ==
    /\ \A s \in Slots : inv[s].status \in {"idle", "done"}
    /\ "p1" \in DOMAIN semi
    /\ semiSrc["p1"].over # <<>>
    /\ semiSrc["p1"].over[1] # semiSrc["p1"].slot
    /\ semiSrc["p1"].over[2] # semi["p1"]
    /\ semiSrc["p1"].over[2].placeName # semi["p1"].placeName

(***************************************************************************)
(* Properties of the configuration, under SpecConfig                       *)
(***************************************************************************)
\* A result that says the invocation failed: status 400 or 500, or the
\* geocoder's module failing to load.
ExplicitFailure(v) ==
    \/ v.code \in {400, 500}
    \/ (v.comp = "geocoder" /\ v.status = "raised" /\ ~clients.geo_loaded)

\* C9: a component loaded with a required configuration value absent sends
\* no request to an external API, writes to no store, and ends every
\* invocation with an explicit failure.
C9_MissingConfigFailsFast ==
    clients.missing
        => /\ ~inv[1].called
           /\ raw = NoRaw /\ semi = EmptyMap /\ final = EmptyMap
           /\ inv[1].status \in {"done", "raised"} => ExplicitFailure(inv[1])

\* The YouTube crawler without TARGET_DB_NAME has asked the Data API and
\* returned status 200.
C9_CrawledWithoutTable ==
    /\ clients.comp = "yt_crawler"
    /\ clients.missing
    /\ clients.ytc_client /\ ~clients.ytc_ddb
    /\ inv[1].status = "done"
    /\ inv[1].called
    /\ inv[1].code = 200
    /\ inv[1].n = 2 /\ inv[1].saved = 0

(***************************************************************************)
(* Properties of the upsert, under SpecBatch                               *)
(***************************************************************************)
\* Every item of the store is held under its own postId.
KeyedByPostId(store) == \A k \in DOMAIN store : store[k].postId = Str(k)

\* A step that puts an item equal to the one already stored under its key
\* leaves the store as it was and reports success.
SamePayloadKeeps(before, after, step) ==
    (/\ step.slot # 0
     /\ step.put # <<>>
     /\ step.put[1].postId.S \in DOMAIN before
     /\ before[step.put[1].postId.S] = step.put[1])
        => (after = before /\ step.saved)

\* C11: a store never holds two items under one primary key: each key of
\* the intermediate and of the final store holds the one item whose postId
\* it is; and a write whose item equals the item already stored under its
\* postId leaves the store exactly as a single write left it, with the
\* write reported as saved.
C11_IdempotentUpsert ==
    /\ [](KeyedByPostId(semi) /\ KeyedByPostId(final))
    /\ [][/\ SamePayloadKeeps(semi, semi', last')
          /\ SamePayloadKeeps(final, final', last')]_vars

\* Both records of a batch wrote the same item under p1: the second write
\* replaced an equal item, was reported as saved, and p1 is the only key.
C11_SamePayloadTwice ==
    /\ inv[1].status = "done"
    /\ inv[1].idx = 2
    /\ last.slot # 0
    /\ last.path = "upserted"
    /\ last.saved
    /\ DOMAIN semi = {"p1"}
    /\ semi["p1"] = last.put[1]
    /\ semiSrc["p1"].over # <<>>
    /\ semiSrc["p1"].over[2] = last.put[1]

(***************************************************************************)
(* Properties of the pipeline, under SpecPipe                              *)
(***************************************************************************)
\* A raw store holds a post under id whose text is not empty: a caption for
\* Instagram, a title for YouTube.
RawPosted(id) ==
    \/ /\ id \in DOMAIN raw.ig
       /\ "S" \in DOMAIN raw.ig[id].caption
       /\ raw.ig[id].caption.S # ""
    \/ /\ id \in DOMAIN raw.yt
       /\ "S" \in DOMAIN raw.yt[id].title
       /\ raw.yt[id].title.S # ""

\* The final store holds the record of id with all its fields.
FinalRecord(id) ==
    /\ id \in DOMAIN final
    /\ final[id].postId = Str(id)
    /\ {"platform", "url", "title", "placeName", "address", "buzz", "lat", "lng"}
          \subseteq DOMAIN final[id]
    /\ final[id].platform \in {Str("Instagram"), Str("Youtube")}
    /\ final[id].buzz \in {Txt(t) : t \in ScoreTexts}
    /\ NumericAttr(final[id].lat)
    /\ NumericAttr(final[id].lng)

\* C12: with every change record delivered in the end, the inference
\* service answering with an object that names an address, the place index
\* answering with a point and every write accepted, each raw post with an
\* id and a text is followed by its record in the final store, carrying
\* platform, url, title, placeName, address, a buzz of 1 to 5 and both
\* coordinates.
C12_RawPostReachesFinal ==
    \A id \in {"p1", "p2"} : RawPosted(id) ~> FinalRecord(id)

\* On Python 3.11 the Instagram post p1, persisted without a permalink, was
\* delivered to the extractor, which wrote nothing: no stream holds a
\* record, and neither the intermediate nor the final store holds p1.
C12_PostNeverGeocoded ==
    /\ clients.py311
    /\ RawPosted("p1")
    /\ "p1" \in DOMAIN raw.ig
    /\ raw.ig["p1"].permalink = [NULL |-> TRUE]
    /\ streams.ig = <<>> /\ streams.yt = <<>> /\ streams.semi = <<>>
    /\ streams.persisted = MaxPersisted
    /\ last.slot # 0
    /\ last.path = "unsaved"
    /\ last.requests > 0
    /\ "p1" \notin DOMAIN semi
    /\ "p1" \notin DOMAIN final

(***************************************************************************)
(* Properties of the event kinds, under SpecBatch                          *)
(***************************************************************************)
OtherKind(rec) == rec.eventName \notin {"INSERT", "MODIFY"}

\* C13: a change record that is neither INSERT nor MODIFY is passed over by
\* each of the three handlers: no request is sent to the inference service
\* or to the place index for it, no store is written, no exception leaves
\* the handler, and the loop goes on to the next record of the batch.
C13_OtherKindsIgnored ==
    /\ []((last.slot # 0 /\ OtherKind(last.rec))
            => /\ last.path = "ignored"
               /\ last.requests = 0
               /\ last.put = <<>>
               /\ inv[1].status \in {"running", "done"}
               /\ (inv[1].status = "done") = (inv[1].idx = inv[1].n))
    /\ [][(last'.slot # 0 /\ OtherKind(last'.rec) /\ inv' # inv)
            => /\ semi' = semi
               /\ final' = final
               /\ inv'[1].called = inv[1].called
               /\ inv'[1].idx = inv[1].idx + 1]_vars

\* The first record of a batch of two was a REMOVE without a new image: the
\* handler sent nothing, wrote nothing and is about to take the second.
C13_RemovePassedOver ==
    /\ last.slot # 0
    /\ last.rec.eventName = "REMOVE"
    /\ "NewImage" \notin DOMAIN last.rec.dynamodb
    /\ inv[1].n = 2
    /\ inv[1].idx = 1
    /\ inv[1].status = "running"
    /\ ~inv[1].called
    /\ semi = EmptyMap /\ final = EmptyMap

(***************************************************************************)
(* Properties of the buzz scores, under SpecExtract.  Quotients are exact  *)
(* fractions; the counts and intervals of the model are ones whose         *)
(* quotient in double precision truncates to the same integer.             *)
(***************************************************************************)
\* The value of a string attribute of an image that is present and not empty.
HasText(img, k) == k \in DOMAIN img /\ "S" \in DOMAIN img[k] /\ img[k].S # ""

\* Seconds from the earlier to the later of two timestamp attributes.
SecondsBetween(img, later, earlier) ==
    FromIso(ReplaceZ(img[later].S), TRUE).secs - FromIso(ReplaceZ(img[earlier].S), TRUE).secs

\* The count held by a number attribute, 0 when the image has none.
CountOf(img, k) == IF k \in DOMAIN img THEN ParseInt(img[k].N).int ELSE 0

\* int(clamp(n / d, 1, 5)) for d > 0, as the text of a number attribute.
Clamped(n, d) ==
    Txt(IntText(IF n >= 5 * d THEN 5 ELSE IF n <= d THEN 1 ELSE n \div d))

AbsentOrTime(data, k) ==
    k \in DOMAIN data
        => /\ IsTag(data[k], "str")
           /\ ~IsExc(FromIso(ReplaceZ(data[k].str), TRUE))
           /\ FromIso(ReplaceZ(data[k].str), TRUE).aware

\* C15: for a record with videoId, url and title whose counts are numbers,
\* the YouTube extractor writes an item, and its buzz is the integer part
\* of 100 * viewCount / (subscriberCount * max(elapsedHours, 1.0)) clamped
\* to [1, 5]; when published_at or crawled_at is missing or subscriberCount
\* is not positive the item is still written, with buzz 1; 1000 views, 100
\* subscribers and two hours give 5, 1 view, 1000 subscribers and one hour
\* give 1.
C15_YoutubeBuzzFormula ==
    (/\ inv[1].comp = "yt_extractor"
     /\ inv[1].status = "running"
     /\ inv[1].phase = "save"
     /\ IsTag(inv[1].cur.ret, "dict")
     /\ {"videoId", "url", "title"} \subseteq DOMAIN inv[1].cur.data
     /\ IsNumber(DictGet(inv[1].cur.data, "views", PyInt(0)))
     /\ IsNumber(DictGet(inv[1].cur.data, "subscriber_count", PyInt(1)))
     /\ AbsentOrTime(inv[1].cur.data, "published_at")
     /\ AbsentOrTime(inv[1].cur.data, "crawled_at"))
        => LET data == inv[1].cur.data
               sv == save_to_semifinal_db(clients, data, inv[1].cur.ret, TRUE)
               views == NumOf(DictGet(data, "views", PyInt(0)))
               subs == NumOf(DictGet(data, "subscriber_count", PyInt(1)))
               timed == "published_at" \in DOMAIN data /\ "crawled_at" \in DOMAIN data
               seconds == FromIso(ReplaceZ(data.crawled_at.str), TRUE).secs
                          - FromIso(ReplaceZ(data.published_at.str), TRUE).secs
               \* elapsedHours = seconds / 3600
               expected == IF timed /\ subs[1] > 0
                           THEN Clamped(100 * views[1] * subs[2] * 3600,
                                        views[2] * subs[1] * Max(seconds, 3600))
                           ELSE Txt(<<"1">>)
           IN  /\ sv.put # <<>>
               /\ sv.ret = PyBool(TRUE)
               /\ sv.put[1].buzz = expected
               /\ (views = <<1000, 1>> /\ subs = <<100, 1>> /\ timed /\ seconds = 7200)
                     => sv.put[1].buzz = Txt(<<"5">>)
               /\ (views = <<1, 1>> /\ subs = <<1000, 1>> /\ timed /\ seconds = 3600)
                     => sv.put[1].buzz = Txt(<<"1">>)

\* A video record without crawled_at, for which the inference service gave
\* an object, was handled and nothing was written for it.
C15_NoCrawledAtNotWritten ==
    /\ last.slot # 0
    /\ last.rec = Insert(Without(VideoP1, {"crawled_at"}))
    /\ IsTag(last.ret, "dict")
    /\ last.path = "unsaved"
    /\ last.put = <<>>
    /\ semi = EmptyMap

(***************************************************************************)
(* Monotonicity of the buzz formulas.  The record an extractor has just    *)
(* written is compared with the items the same save writes for the same    *)
(* record with another engagement count, or another crawl time.            *)
(***************************************************************************)
CountGrid == {-5, 0, 1, 3, 4, 6, 10, 30, 100, 250, 490, 500, 1000, 3000}
TimeGrid ==
    {"2024-01-01T00:00:00+00:00", "2024-01-01T00:05:00+00:00", "2024-01-01T01:00:00+00:00",
     "2024-01-01T02:00:00+00:00", "2024-01-02T00:00:00+00:00", "2024-01-03T00:00:00+00:00"}

\* The buzz of the item the extractor writes for data, 0 when it writes none.
WrittenBuzz(comp, data, ext) ==
    LET sv == IF comp = "ig_extractor"
              THEN save_to_target_db(clients, data, ext, CHOOSE now \in Clock : TRUE, TRUE)
              ELSE save_to_semifinal_db(clients, data, ext, TRUE)
    IN  IF sv.put = <<>> THEN 0 ELSE ParseInt(sv.put[1].buzz.N).int

LastComp == inv[last.slot].comp
LastData == Receive(LastComp, last.rec).data
CountKey == IF LastComp = "ig_extractor" THEN "like_count" ELSE "views"
PostedKey == IF LastComp = "ig_extractor" THEN "timestamp" ELSE "published_at"
ByCount(c) == WrittenBuzz(LastComp, Extend(LastData, CountKey, PyInt(c)), last.ret)
ByCrawl(t) == WrittenBuzz(LastComp, Extend(LastData, "crawled_at", PyStr(t)), last.ret)
SecsOf(t) == FromIso(ReplaceZ(t), clients.py311).secs

\* C16: with every other input fixed, the buzz an extractor writes does not
\* decrease when the engagement count (likes, views) grows and does not
\* increase when the time between publication and crawl grows, the floor
\* on the elapsed time and the clamp included.
C16_BuzzMonotone ==
    (/\ last.slot # 0
     /\ last.path = "upserted"
     /\ LastComp \in {"ig_extractor", "yt_extractor"})
        => LET own == ParseInt(last.put[1].buzz.N).int
               count == NumOf(DictGet(LastData, CountKey, PyInt(0)))
               timed == /\ PostedKey \in DOMAIN LastData
                        /\ "crawled_at" \in DOMAIN LastData
                        /\ Truthy(LastData[PostedKey])
                        /\ Truthy(LastData.crawled_at)
           IN  /\ own \in 1..5
               /\ \A c \in CountGrid :
                     /\ ByCount(c) \in 1..5
                     /\ c * count[2] >= count[1] => ByCount(c) >= own
                     /\ c * count[2] <= count[1] => ByCount(c) <= own
               /\ \A c1, c2 \in CountGrid : c1 <= c2 => ByCount(c1) <= ByCount(c2)
               /\ timed =>
                     /\ \A t \in TimeGrid :
                           /\ ByCrawl(t) \in 1..5
                           /\ SecsOf(t) >= SecsOf(LastData.crawled_at.str) => ByCrawl(t) <= own
                           /\ SecsOf(t) <= SecsOf(LastData.crawled_at.str) => ByCrawl(t) >= own
                     /\ \A t1, t2 \in TimeGrid :
                           SecsOf(t1) <= SecsOf(t2) => ByCrawl(t1) >= ByCrawl(t2)

\* The Instagram extractor wrote buzz 2 for 250 likes over one day; more
\* likes or an earlier crawl give a higher buzz, fewer likes or a later
\* crawl a lower one.
C16_ScoreMovesBothWays ==
    /\ last.slot # 0
    /\ last.path = "upserted"
    /\ LastComp = "ig_extractor"
    /\ LastData.like_count = PyInt(250)
    /\ last.put[1].buzz = Txt(<<"2">>)
    /\ ByCount(490) = 4
    /\ ByCount(10) = 1
    /\ ByCrawl("2024-01-01T00:05:00+00:00") = 5
    /\ ByCrawl("2024-01-03T00:00:00+00:00") = 1

(***************************************************************************)
(* Unmarshalling in the consumers.                                         *)
(***************************************************************************)
\* A number text: an optional sign, digits, at most one decimal point.
NumberText(t) == ~IsExc(IF HasDot(t) THEN ParseFloat(t) ELSE ParseInt(t))

RECURSIVE NumbersWellFormed(_)
NumbersWellFormed(image) ==
    \A k \in DOMAIN image :
        IF "S" \in DOMAIN image[k] THEN TRUE
        ELSE IF "N" \in DOMAIN image[k] THEN NumberText(image[k].N)
        ELSE IF "M" \in DOMAIN image[k] THEN NumbersWellFormed(image[k].M)
        ELSE TRUE

\* The unmarshalled form the three consumers are to give.
RECURSIVE Unmarshalled(_)
Unmarshalled(image) ==
    LET keep == {k \in DOMAIN image :
                    \/ "S" \in DOMAIN image[k]
                    \/ "N" \in DOMAIN image[k]
                    \/ ("M" \in DOMAIN image[k] /\ DOMAIN image[k].M # {})}
    IN  [k \in keep |->
            IF "S" \in DOMAIN image[k] THEN PyStr(image[k].S)
            ELSE IF "N" \in DOMAIN image[k]
            THEN (IF HasDot(image[k].N) THEN ParseFloat(image[k].N) ELSE ParseInt(image[k].N))
            ELSE PyDict(Unmarshalled(image[k].M))]

\* C17: in each consumer, a new image whose number texts are well formed is
\* unmarshalled without raising: strings stay strings, a number text
\* without a decimal point becomes an integer and one with a decimal point
\* a float, non-empty nested maps are unmarshalled in turn, other values
\* and empty maps are left out.
C17_UnmarshalTyped ==
    /\ (/\ last.slot # 0
        /\ Acted(last.rec)
        /\ "NewImage" \in DOMAIN last.rec.dynamodb
        /\ NumbersWellFormed(last.rec.dynamodb.NewImage))
          => last.path # "raised"
    /\ \A slot \in DOMAIN inv :
          (inv[slot].status = "running" /\ inv[slot].phase \in {"call", "save"})
              => /\ NumbersWellFormed(inv[slot].cur.rec.dynamodb.NewImage)
                 /\ inv[slot].cur.data = Unmarshalled(inv[slot].cur.rec.dynamodb.NewImage)

\* The Instagram extractor's invocation ended in an exception at the record
\* whose like count reads 1.5.
C17_DecimalRaisesInInstagram ==
    /\ last.slot # 0
    /\ LastComp = "ig_extractor"
    /\ last.rec = Insert([MediaP1 EXCEPT !.like_count = Txt(<<"1", ".", "5">>)])
    /\ last.path = "raised"
    /\ inv[last.slot].status = "raised"

(***************************************************************************)
(* Writes per record and the reported count.  The result of the YouTube    *)
(* extractor and of the geocoder carries a count; the result of the        *)
(* Instagram extractor carries none.                                       *)
(***************************************************************************)
\* The invocation in the slot takes its save step.
Saving(slot) ==
    /\ inv[slot].status = "running"
    /\ inv[slot].phase = "save"
    /\ inv'[slot] # inv[slot]

Crawling(slot) ==
    /\ inv[slot].comp \in {"yt_crawler", "ig_crawler"}
    /\ inv[slot].status = "running"
    /\ inv'[slot] # inv[slot]

C20_EveryWaitBeforeRetry ==
    /\ \A i \in 1..Len(gx.waits) : gx.waits[i] = INITIAL_BACKOFF_TIME * (2 ^ (i - 1))
    /\ Len(gx.waits) <= gx.requests
    /\ (gx.pc = "returned" /\ gx.waits # <<>>) => gx.requests > Len(gx.waits)
    /\ Len(gx.waits) <= MAX_RETRIES - 1

\* Five rate-limit signals in a row: the call waited 160 seconds after the
\* fifth and returned None without another request.
C20_WaitAfterLastAttempt ==
    /\ gx.pc = "returned"
    /\ gx.ret = PyNone
    /\ gx.requests = MAX_RETRIES
    /\ gx.waits = <<10, 20, 40, 80, 160>>
    /\ \A i \in 1..Len(gx.hist) : gx.hist[i].kind = "exc" /\ IsRateLimit(gx.hist[i])

(***************************************************************************)
(* Answers of the inference service that are no JSON object.               *)
(***************************************************************************)
\* C21: call_gemini_for_extraction returns null for every answer that is
\* not a JSON object: for a text that is no JSON document, and equally for
\* JSON that is an array, a string, a number or a boolean, the parsed value
\* is not what the call returns.
C21_NonObjectGivesNull ==
    \A i \in 1..Len(gx.hist) :
        (gx.hist[i].kind = "text" /\ gx.hist[i].text \in OtherTexts)
            => /\ gx.pc = "returned"
               /\ gx.requests = i
               /\ gx.ret = PyNone

\* The service answered with a JSON array and the call returned the list.
C21_ArrayReturnedAsParsed ==
    /\ gx.pc = "returned"
    /\ gx.requests = 1
    /\ gx.hist[1] = Answer("[{\"placeName\": \"Ramen A\"}]")
    /\ gx.ret = PyList(<<PyDict([placeName |-> PyStr("Ramen A")])>>)

(***************************************************************************)
(* Records lacking a required field.                                       *)
(***************************************************************************)
\* The new image lacks the id or the text the extractor works from: for
\* Instagram media_id or caption, for YouTube videoId or both title and
\* description.
LacksRequired(comp, image) ==
    IF comp = "ig_extractor"
    THEN ~HasText(image, "media_id") \/ ~HasText(image, "caption")
    ELSE ~HasText(image, "videoId")
         \/ (~HasText(image, "title") /\ ~HasText(image, "description"))

\* C22: in both extractors an INSERT or MODIFY record whose new image lacks
\* a required field is skipped before the inference call: the invocation
\* never reaches the call or the save with such a record, no request is
\* made for it and nothing is written for it.
C22_LackingFieldSkipped ==
    /\ \A slot \in Slots :
          (/\ inv[slot].comp \in {"ig_extractor", "yt_extractor"}
           /\ inv[slot].status = "running"
           /\ inv[slot].phase \in {"call", "save"})
              => ~LacksRequired(inv[slot].comp, inv[slot].cur.rec.dynamodb.NewImage)
    /\ (/\ last.slot # 0
        /\ LastComp \in {"ig_extractor", "yt_extractor"}
        /\ Acted(last.rec)
        /\ "NewImage" \in DOMAIN last.rec.dynamodb
        /\ LacksRequired(LastComp, last.rec.dynamodb.NewImage))
          => /\ last.path = "skipped"
             /\ last.requests = 0
             /\ last.put = <<>>

\* The YouTube extractor made an inference request for a record without
\* videoId, got an object and wrote nothing.
C22_RequestForVideoWithoutId ==
    /\ last.slot # 0
    /\ LastComp = "yt_extractor"
    /\ last.rec = Insert(Without(VideoP1, {"videoId"}))
    /\ last.requests > 0
    /\ IsTag(last.ret, "dict")
    /\ last.path = "unsaved"
    /\ inv[last.slot].called

(***************************************************************************)
(* fetchedAt of the intermediate records.  The clock of the extraction     *)
(* reads later than every crawled_at of the raw records.                   *)
(***************************************************************************)
\* C23: the fetchedAt of every item an extractor writes is the time of the
\* write, read from the clock at the end of the extraction, and not the
\* crawled_at of the raw record.
C23_FetchedAtIsExtractionTime ==
    /\ \A k \in DOMAIN semi : semi[k].fetchedAt.S \in Clock
    /\ (/\ last.slot # 0
        /\ LastComp \in {"ig_extractor", "yt_extractor"}
        /\ last.path = "upserted")
          => /\ last.put[1].fetchedAt.S \in Clock
             /\ "crawled_at" \in DOMAIN last.rec.dynamodb.NewImage
                   => last.put[1].fetchedAt # last.rec.dynamodb.NewImage.crawled_at

\* The YouTube extractor wrote p1 with the crawled_at of the raw record as
\* its fetchedAt.
C23_YoutubeFetchedAtIsCrawledAt ==
    /\ last.slot # 0
    /\ LastComp = "yt_extractor"
    /\ last.path = "upserted"
    /\ last.rec = Insert(VideoP1)
    /\ last.put[1].fetchedAt = Str("2024-01-01T02:00:00+00:00")
    /\ "p1" \in DOMAIN semi
    /\ semi["p1"].fetchedAt = VideoP1.crawled_at

(***************************************************************************)
(* get_top_hashtag_media                                                   *)
(***************************************************************************)
\* The items the source holds in the order the pagination reaches them: a
\* page is followed by the next while it names one, up to a transport error.
RECURSIVE SourceOrder(_)
SourceOrder(pages) ==
    IF pages = <<>> \/ Head(pages).kind = "error" THEN <<>>
    ELSE Head(pages).data \o (IF Head(pages).next THEN SourceOrder(Tail(pages)) ELSE <<>>)

\* The item was posted within max_days of now.
InWindow(media, now) ==
    /\ "timestamp" \in DOMAIN media
    /\ ~IsExc(StrpTime(media.timestamp))
    /\ StrpTime(media.timestamp).secs >= FromIso(now, TRUE).secs - MAX_DAYS * 86400

\* C24: for any sequence of pages, a call of get_top_hashtag_media that
\* returns gives at most max_count items, each posted within max_days, and
\* the list is the beginning of the source order up to max_count items, the
\* first item out of the window or a transport error, whichever comes
\* first: no item after an item out of the window is returned, and after a
\* transport error the items collected so far are.
C24_FetchIsBoundedPrefix ==
    \A slot \in Slots :
        (/\ inv[slot].comp = "ig_crawler"
         /\ "fetched" \in DOMAIN inv[slot].cur
         /\ ~inv[slot].cur.fetched.raised)
            => LET cur == inv[slot].cur
                   ret == cur.fetched.ret
                   src == SourceOrder(cur.pages)
                   stops == {Len(src), cur.max_count}
                            \cup {i - 1 : i \in {j \in 1..Len(src) : ~InWindow(src[j], cur.now)}}
                   k == CHOOSE x \in stops : \A y \in stops : x <= y
               IN  /\ Len(ret) <= cur.max_count
                   /\ \A i \in 1..Len(ret) : InWindow(ret[i], cur.now)
                   /\ Len(ret) <= Len(src)
                   /\ \A i \in 1..Len(ret) : ret[i] = src[i]
                   /\ \A i \in 1..Len(ret) : \A j \in 1..i : InWindow(src[j], cur.now)
                   /\ Len(ret) = k

\* The first page holds p1, an item of a month before the window and p2,
\* and names a second page: p1 alone is returned, for a max_count of 2.
C24_StopsAtOldItem ==
    /\ inv[1].comp = "ig_crawler"
    /\ "fetched" \in DOMAIN inv[1].cur
    /\ inv[1].cur.max_count = 2
    /\ inv[1].cur.pages = <<Page(<<ApiMediaP1, ApiMediaOld, ApiMediaP2>>, TRUE),
                            Page(<<ApiMediaP2>>, FALSE)>>
    /\ inv[1].cur.fetched.ret = <<ApiMediaP1>>
    /\ inv[1].cur.fetched.requests = 1

(***************************************************************************)
(* The final store against the intermediate store.  The change records of  *)
(* the intermediate store reach the geocoder in order, so the new image of *)
(* the last record handled for a post is its current intermediate record.  *)
(***************************************************************************)
\* C25: once the geocoder has handled every record of its batch, and the
\* final store accepted what it was given, a post of the final store whose
\* record was the last handled has a current intermediate record with an
\* address that is no sentinel and was geocoded, and the final record
\* carries the fields of that intermediate record: an intermediate record
\* upserted again with address "N/A", or with an address the place index
\* no longer finds, leaves no stale entry in the final store.
C25_FinalFollowsIntermediate ==
    (/\ inv[1].comp = "geocoder"
     /\ inv[1].status = "done"
     /\ last.slot # 0
     /\ Acted(last.rec)
     /\ "NewImage" \in DOMAIN last.rec.dynamodb
     /\ HasText(last.rec.dynamodb.NewImage, "postId")
     /\ last.rec.dynamodb.NewImage.postId.S \in DOMAIN final
     /\ ~(Truthy(last.ret) /\ last.path = "unsaved"))
        => LET image == last.rec.dynamodb.NewImage
               stored == final[image.postId.S]
           IN  /\ HasText(image, "address")
               /\ image.address.S \notin {"N/A", "null"}
               /\ last.path = "upserted"
               /\ \A k \in DOMAIN image : k \in DOMAIN stored /\ stored[k] = image[k]

\* The geocoder handled p1 with address Tokyo, then p1 again with address
\* "N/A": the final store still holds p1 with address Tokyo.
C25_StaleFinalEntry ==
    /\ inv[1].comp = "geocoder"
    /\ inv[1].status = "done"
    /\ inv[1].n = 2
    /\ inv[1].saved = 1
    /\ last.rec = Insert([SemiP1 EXCEPT !.address = Str("N/A")])
    /\ last.requests = 0
    /\ last.put = <<>>
    /\ "p1" \in DOMAIN final
    /\ final["p1"].address = Str("Tokyo")

(***************************************************************************)
(* An inference result without keys.                                       *)
(***************************************************************************)
FullAnswer == PyDict([placeName |-> PyStr("Ramen A"), address |-> PyStr("Tokyo")])

\* C26: in both extractors an inference result that is an object without
\* keys ends the record like a failed extraction, the save never entered
\* and nothing written, while an object with any key, even with neither
\* placeName nor address, goes to the save, and is written for every record
\* that is written for a full answer.
C26_EmptyObjectNotWritten ==
    /\ \A slot \in Slots :
          (/\ inv[slot].comp \in {"ig_extractor", "yt_extractor"}
           /\ inv[slot].status = "running"
           /\ inv[slot].phase = "save")
              => inv[slot].cur.ret # PyDict(EmptyMap)
    /\ (last.slot # 0 /\ LastComp \in {"ig_extractor", "yt_extractor"})
          => /\ last.ret = PyDict(EmptyMap)
                   => /\ last.path = "failed"
                      /\ last.put = <<>>
                      /\ ~last.saved
             /\ (IsTag(last.ret, "dict") /\ DOMAIN last.ret.dict # {})
                   => /\ last.path \in {"upserted", "unsaved"}
                      /\ WrittenBuzz(LastComp, LastData, FullAnswer) > 0
                            => WrittenBuzz(LastComp, LastData, last.ret) > 0
                      /\ (last.path = "upserted" /\ "placeName" \notin DOMAIN last.ret.dict)
                            => last.put[1].placeName = Str("N/A")
                      /\ (last.path = "upserted" /\ "address" \notin DOMAIN last.ret.dict)
                            => last.put[1].address = Str("N/A")

\* The inference service answered {} for a record with id and text: one
\* request, nothing written, the invocation done.
C26_EmptyObjectEndsRecord ==
    /\ last.slot # 0
    /\ LastComp \in {"ig_extractor", "yt_extractor"}
    /\ last.ret = PyDict(EmptyMap)
    /\ last.requests = 1
    /\ last.path = "failed"
    /\ semi = EmptyMap
    /\ inv[last.slot].status = "done"

=============================================================================
